---- MODULE Spec2Model ----
(***************************************************************************)
(* Krate backend: the reverse proxy (commands/proxy.rs) and the streaming  *)
(* archive codec (commands/archive.rs).                                    *)
(*                                                                         *)
(* Text is modelled as a sequence of one-character strings, so that trim,  *)
(* lower-casing, splitting and prefix tests are computed as the code       *)
(* computes them.  Option<T> is a record [some, v].                        *)
(***************************************************************************)
EXTENDS Integers, Sequences, FiniteSets, TLC

VARIABLES
    \* ---- ProxyState (proxy.rs:172-176) and the tasks it spawns
    runtime,          \* Mutex<Option<ProxyRuntime>>: None or the acceptor handle
    snapshot,         \* Mutex<ProxySnapshot>
    total_requests,   \* AtomicU64
    calls,            \* command invocations: kind, config, position, result
    tasks,            \* acceptor tasks (each owns its TcpListener)
    conns,            \* per-connection tasks in flight, by acceptor
    now,              \* current_timestamp()
    reply,            \* the ProxyStatus most recently returned to the frontend
    \* ---- route table under test (build_routes / select_route)
    rt,
    \* ---- archive codec under test (create_archive / extract_archive)
    ar

vars == <<runtime, snapshot, total_requests, calls, tasks, conns, now, reply, rt, ar>>

(***************************************************************************)
(* Option and text helpers                                                 *)
(***************************************************************************)
None == [some |-> FALSE, v |-> <<>>]

Some(x) == [some |-> TRUE, v |-> x]

IsSpace(c) == c \in {" ", "\t", "\n", "\r"}

UpperChars == <<"A", "B", "H", "P", "S", "T", "W">>

LowerChars == <<"a", "b", "h", "p", "s", "t", "w">>

\* u8::to_ascii_lowercase on one character
to_ascii_lowercase_char(c) ==
    IF \E i \in 1..Len(UpperChars) : UpperChars[i] = c
    THEN LowerChars[CHOOSE i \in 1..Len(UpperChars) : UpperChars[i] = c]
    ELSE c

\* str::to_ascii_lowercase
to_ascii_lowercase(s) == [i \in 1..Len(s) |-> to_ascii_lowercase_char(s[i])]

RECURSIVE trim_start(_)
trim_start(s) ==
    IF s # <<>> /\ IsSpace(Head(s)) THEN trim_start(Tail(s)) ELSE s

RECURSIVE trim_end(_)
trim_end(s) ==
    IF s # <<>> /\ IsSpace(s[Len(s)]) THEN trim_end(SubSeq(s, 1, Len(s) - 1)) ELSE s

\* str::trim
trim(s) == trim_end(trim_start(s))

\* str::trim_end_matches(ch)
RECURSIVE trim_end_matches(_, _)
trim_end_matches(s, ch) ==
    IF s # <<>> /\ s[Len(s)] = ch
    THEN trim_end_matches(SubSeq(s, 1, Len(s) - 1), ch)
    ELSE s

\* str::starts_with
starts_with(s, p) == Len(p) <= Len(s) /\ SubSeq(s, 1, Len(p)) = p

\* str::strip_prefix: Some(rest) or None
strip_prefix(s, p) ==
    IF starts_with(s, p) THEN Some(SubSeq(s, Len(p) + 1, Len(s))) ELSE None

\* index of the first / last occurrence of ch in s, 0 when absent
find_char(s, ch) ==
    IF \E i \in 1..Len(s) : s[i] = ch
    THEN CHOOSE i \in 1..Len(s) : s[i] = ch /\ \A j \in 1..(i - 1) : s[j] # ch
    ELSE 0

rfind_char(s, ch) ==
    IF \E i \in 1..Len(s) : s[i] = ch
    THEN CHOOSE i \in 1..Len(s) : s[i] = ch /\ \A j \in (i + 1)..Len(s) : s[j] # ch
    ELSE 0

\* str::matches(ch).count()
count_char(s, ch) == Cardinality({i \in 1..Len(s) : s[i] = ch})

\* str::split(':').next(): the text before the first ch (all of it when absent)
split_first(s, ch) ==
    IF find_char(s, ch) = 0 THEN s ELSE SubSeq(s, 1, find_char(s, ch) - 1)

(***************************************************************************)
(* RouteTable (proxy.rs:804-961)                                           *)
(***************************************************************************)
Digits == <<"0", "1", "2", "3", "4", "5", "6", "7", "8", "9">>

IsDigit(c) == \E i \in 1..10 : Digits[i] = c

DigitVal(c) == (CHOOSE i \in 1..10 : Digits[i] = c) - 1

RECURSIVE DecValue(_)
DecValue(s) ==
    IF s = <<>> THEN 0 ELSE DecValue(SubSeq(s, 1, Len(s) - 1)) * 10 + DigitVal(s[Len(s)])

\* str::parse::<u16>(): an optional '+', then digits, value at most 65535
parse_u16(s) ==
    LET body == IF s # <<>> /\ Head(s) = "+" THEN Tail(s) ELSE s
    IN  IF body # <<>> /\ Len(body) <= 6 /\ (\A i \in 1..Len(body) : IsDigit(body[i]))
           /\ DecValue(body) <= 65535
        THEN Some(DecValue(body))
        ELSE None

\* default_port that gives 80 for both schemes
default_port_always_80(scheme) == 80

default_port(scheme) == IF scheme = "Http" THEN 80 ELSE 443

Txt(str) == CASE str = "http://"  -> <<"h", "t", "t", "p", ":", "/", "/">>
              [] str = "https://" -> <<"h", "t", "t", "p", "s", ":", "/", "/">>
              [] str = "ws://"    -> <<"w", "s", ":", "/", "/">>
              [] str = "wss://"   -> <<"w", "s", "s", ":", "/", "/">>

\* parse_target: [ok, scheme, host, port] or [ok |-> FALSE, err]
parse_target(raw) ==
    LET normalized == trim_end_matches(trim(raw), "/")
        lower      == to_ascii_lowercase(normalized)
        Bad(e)     == [ok |-> FALSE, err |-> e]
        After(n)   == SubSeq(normalized, n + 1, Len(normalized))
        Rest(scheme, rest) ==
            IF rest = <<>> THEN Bad("TARGET_EMPTY")
            ELSE IF count_char(rest, "/") > 0 THEN Bad("TARGET_HAS_PATH")
            ELSE IF count_char(rest, ":") > 1 THEN Bad("TARGET_IPV6")
            ELSE IF rfind_char(rest, ":") # 0
                 THEN LET k    == rfind_char(rest, ":")
                          host == trim(SubSeq(rest, 1, k - 1))
                          port == parse_u16(trim(SubSeq(rest, k + 1, Len(rest))))
                      IN  IF host = <<>> THEN Bad("TARGET_HOST_EMPTY")
                          ELSE IF ~port.some THEN Bad("TARGET_PORT_INVALID")
                          ELSE [ok |-> TRUE, scheme |-> scheme, host |-> host, port |-> port.v]
                 ELSE [ok |-> TRUE, scheme |-> scheme, host |-> rest,
                       port |-> default_port(scheme)]
    IN  IF normalized = <<>> THEN Bad("TARGET_EMPTY")
        ELSE IF starts_with(lower, Txt("http://")) THEN Rest("Http", After(7))
        ELSE IF starts_with(lower, Txt("https://")) THEN Rest("Https", After(8))
        ELSE IF starts_with(lower, Txt("ws://")) THEN Rest("Http", After(5))
        ELSE IF starts_with(lower, Txt("wss://")) THEN Rest("Https", After(6))
        ELSE Bad("TARGET_BAD_SCHEME")

normalize_path_prefix(raw) ==
    LET trimmed == trim(raw)
        prefix  == IF starts_with(trimmed, <<"/">>) THEN trimmed ELSE <<"/">> \o trimmed
    IN  IF trimmed = <<>> THEN <<"/">>
        ELSE IF Len(prefix) > 1 THEN trim_end_matches(prefix, "/")
        ELSE prefix

normalize_host_value(raw) ==
    LET value == to_ascii_lowercase(trim(raw))
        host  == trim(split_first(value, ":"))
    IN  IF value = <<>> \/ value = <<"*">> THEN None
        ELSE IF host = <<>> THEN None
        ELSE Some(host)

\* path_match without the segment boundary: any leading prefix matches
path_match_any_prefix(prefix, path) ==
    IF prefix = <<"/">> THEN TRUE ELSE starts_with(path, prefix)

\* path_match, proxy.rs:948-961
path_match(prefix, path) ==
    IF prefix = <<"/">> THEN TRUE
    ELSE IF path = prefix THEN TRUE
    ELSE LET rest == strip_prefix(path, prefix)
         IN  rest.some /\ starts_with(rest.v, <<"/">>)

\* the closure of select_route's find
route_matches(route, request_host, request_path) ==
    LET host_match ==
            IF ~route.host.some THEN TRUE
            ELSE IF ~request_host.some THEN FALSE
            ELSE route.host.v = request_host.v
    IN  host_match /\ path_match(route.path_prefix, request_path)

\* select_route: the first matching route, or None
select_route(routes, request_host, request_path) ==
    LET hits == {i \in 1..Len(routes) : route_matches(routes[i], request_host, request_path)}
    IN  IF hits = {} THEN None
        ELSE Some(routes[CHOOSE i \in hits : \A j \in hits : i <= j])

\* the comparator of routes.sort_by: TRUE when left must come before right
route_before(left, right) ==
    \/ Len(left.path_prefix) > Len(right.path_prefix)
    \/ /\ Len(left.path_prefix) = Len(right.path_prefix)
       /\ left.host.some /\ ~right.host.some

\* build_routes without its sort: the table is left in input order
sort_routes_input_order(s) == s

\* slice::sort_by is a stable sort: insert each element behind the last
\* element that does not have to follow it
RECURSIVE sort_routes(_)
sort_routes(s) ==
    IF s = <<>> THEN <<>>
    ELSE LET sorted == sort_routes(SubSeq(s, 1, Len(s) - 1))
             x      == s[Len(s)]
             k      == Cardinality({i \in 1..Len(sorted) :
                           \A j \in 1..i : ~route_before(x, sorted[j])})
         IN  SubSeq(sorted, 1, k) \o <<x>> \o SubSeq(sorted, k + 1, Len(sorted))

\* one ProxyRouteInput turned into a ProxyRoute (the loop body of build_routes)
make_route(item) ==
    LET t == parse_target(item.target)
    IN  [host |-> normalize_host_value(item.host),
         path_prefix |-> normalize_path_prefix(item.path_prefix),
         target_scheme |-> t.scheme, target_host |-> t.host, target_port |-> t.port,
         strip_prefix |-> item.strip_prefix,
         allow_insecure_tls |-> item.allow_insecure_tls]

\* build_routes: Err at the first enabled input whose target does not parse
build_routes(inputs) ==
    LET enabled == SelectSeq(inputs, LAMBDA r : r.enabled)
        bad     == {i \in 1..Len(enabled) : ~parse_target(enabled[i].target).ok}
    IN  IF bad # {}
        THEN [ok |-> FALSE,
              err |-> parse_target(enabled[CHOOSE i \in bad : \A j \in bad : i <= j].target).err]
        ELSE [ok |-> TRUE,
              routes |-> sort_routes([i \in 1..Len(enabled) |-> make_route(enabled[i])])]

\* extract_request_host, from the Host header (None when the header is absent)
extract_request_host(host_header) ==
    IF host_header.some THEN normalize_host_value(host_header.v) ELSE None

(***************************************************************************)
(* Proxy lifecycle: proxy_start, proxy_stop, proxy_get_status and the      *)
(* acceptor task (proxy.rs:172-444).                                       *)
(*                                                                         *)
(* A command is an async fn on a multi-threaded runtime: every action      *)
(* below is one critical section or one await of its body, and the actions *)
(* of different calls and tasks interleave freely.                         *)
(***************************************************************************)
MaxCalls == 2

MaxConns == 1

MaxTime == 1

MaxRequests == 1

Calls == 1..MaxCalls

HostH == <<"h">>

RouteA == [enabled |-> TRUE, host |-> <<>>, path_prefix |-> <<"/", "a">>,
           target |-> Txt("http://") \o HostH,
           strip_prefix |-> FALSE, allow_insecure_tls |-> FALSE]

RouteB == [RouteA EXCEPT !.host = <<"B">>, !.path_prefix = <<"/", "a", "/", "b">>,
                         !.target = Txt("wss://") \o HostH \o <<":", "8">>]

RouteOff == [RouteA EXCEPT !.enabled = FALSE, !.target = HostH]

RouteBad == [RouteA EXCEPT !.target = HostH]

\* the ProxyStartRequest values the commands are called with
Configs ==
    { [listen_host |-> HostH, listen_port |-> 1, routes |-> <<RouteA>>],
      [listen_host |-> <<" ">> \o HostH, listen_port |-> 2,
       routes |-> <<RouteA, RouteOff, RouteB>>],
      [listen_host |-> <<" ">>, listen_port |-> 1, routes |-> <<RouteA>>],
      [listen_host |-> HostH, listen_port |-> 0, routes |-> <<RouteA>>],
      [listen_host |-> HostH, listen_port |-> 1, routes |-> <<RouteOff>>],
      [listen_host |-> HostH, listen_port |-> 1, routes |-> <<RouteA, RouteBad>>] }

NoConfig == [listen_host |-> <<>>, listen_port |-> 0, routes |-> <<>>]

\* ProxyState::new
NewSnapshot ==
    [running |-> FALSE, listen_host |-> None, listen_port |-> None, route_count |-> 0,
     started_at |-> None, last_error |-> None, message |-> <<"not started">>]

\* ProxyState::status
status(snap, total) ==
    [running |-> snap.running, listen_host |-> snap.listen_host,
     listen_port |-> snap.listen_port, route_count |-> snap.route_count,
     total_requests |-> total, started_at |-> snap.started_at,
     last_error |-> snap.last_error, message |-> snap.message]

\* Result<ProxyStatus, String> of a call; the ProxyStatus of an Ok goes to reply
Pending == [done |-> FALSE, ok |-> FALSE, err |-> ""]

Err(e) == [done |-> TRUE, ok |-> FALSE, err |-> e]

Ok == [done |-> TRUE, ok |-> TRUE, err |-> ""]

\* before: for a proxy_stop, the acceptor tasks that were running when it
\* was called; overwrote: for a proxy_start, the value of the counter that its
\* store(0) replaced (-1 before the store)
IdleCall == [kind |-> "none", pc |-> "idle", config |-> NoConfig, listen_host |-> <<>>,
             route_count |-> 0, taken |-> 0, before |-> {}, result |-> Pending,
             overwrote |-> -1]

\* old: how many of the connection tasks counted in conns were spawned by
\* an acceptor of an earlier run
NoTask == [state |-> "none", addr |-> <<>>, stop |-> FALSE, aborted |-> FALSE, old |-> 0]

\* a TcpListener is alive while the call that bound it holds it, or while the
\* acceptor task that received it runs
BoundAddrs ==
    {<<calls[c].listen_host, calls[c].config.listen_port>> :
        c \in {d \in Calls : calls[d].pc = "s_spawn"}}
    \cup {tasks[t].addr : t \in {d \in Calls : tasks[d].state = "running"}}

InitProxy ==
    /\ runtime = 0
    /\ snapshot = NewSnapshot
    /\ total_requests = 0
    /\ calls = [c \in Calls |-> IdleCall]
    /\ tasks = [c \in Calls |-> NoTask]
    /\ conns = [c \in Calls |-> 0]
    /\ now = 0
    /\ reply = None

Return(c, res) == calls' = [calls EXCEPT ![c].pc = "done", ![c].result = res]

Goto(c, pc) == calls' = [calls EXCEPT ![c].pc = pc]

\* a command may be called while others are still running
MayInvoke(c) ==
    /\ calls[c].pc = "idle"
    /\ \A d \in Calls : d < c => calls[d].pc # "idle"

\* start_entry with the route count taken from the request instead of the built table
start_entry_counts_inputs(cfg) ==
    LET host    == trim(cfg.listen_host)
        routes  == build_routes(cfg.routes)
        call    == [IdleCall EXCEPT !.kind = "start", !.config = cfg]
        Fail(e) == [call EXCEPT !.pc = "done", !.result = Err(e)]
    IN  IF host = <<>> THEN Fail("LISTEN_HOST_EMPTY")
        ELSE IF cfg.listen_port = 0 THEN Fail("LISTEN_PORT_INVALID")
        ELSE IF ~routes.ok THEN Fail(routes.err)
        ELSE IF routes.routes = <<>> THEN Fail("NO_ROUTES")
        ELSE [call EXCEPT !.pc = "s_check", !.listen_host = host,
                          !.route_count = Len(cfg.routes)]

\* the entry of proxy_start, proxy.rs:274-285: the call frame after the
\* validation of the request, which touches no shared state
start_entry(cfg) ==
    LET host    == trim(cfg.listen_host)
        routes  == build_routes(cfg.routes)
        call    == [IdleCall EXCEPT !.kind = "start", !.config = cfg]
        Fail(e) == [call EXCEPT !.pc = "done", !.result = Err(e)]
    IN  IF host = <<>> THEN Fail("LISTEN_HOST_EMPTY")
        ELSE IF cfg.listen_port = 0 THEN Fail("LISTEN_PORT_INVALID")
        ELSE IF ~routes.ok THEN Fail(routes.err)
        ELSE IF routes.routes = <<>> THEN Fail("NO_ROUTES")
        ELSE [call EXCEPT !.pc = "s_check", !.listen_host = host,
                          !.route_count = Len(routes.routes)]

InvokeStart(c) ==
    /\ MayInvoke(c)
    /\ \E cfg \in Configs : calls' = [calls EXCEPT ![c] = start_entry(cfg)]
    /\ UNCHANGED <<runtime, snapshot, total_requests, tasks, conns, now, reply, rt, ar>>

InvokeStop(c) ==
    /\ MayInvoke(c)
    /\ calls' = [calls EXCEPT ![c].kind = "stop", ![c].pc = "p_take",
                              ![c].before = {t \in Calls : tasks[t].state = "running"}]
    /\ UNCHANGED <<runtime, snapshot, total_requests, tasks, conns, now, reply, rt, ar>>

\* proxy_get_status (proxy.rs:257-260)
GetStatus(c) ==
    /\ MayInvoke(c)
    /\ calls' = [calls EXCEPT ![c].kind = "status", ![c].pc = "done", ![c].result = Ok]
    /\ reply' = Some(status(snapshot, total_requests))
    /\ UNCHANGED <<runtime, snapshot, total_requests, tasks, conns, now, rt, ar>>

\* proxy_start, proxy.rs:287-295: the first look at the runtime, under its mutex
StartCheck(c) ==
    /\ calls[c].pc = "s_check"
    /\ IF runtime # 0 THEN Return(c, Err("ALREADY_RUNNING")) ELSE Goto(c, "s_bind")
    /\ UNCHANGED <<runtime, snapshot, total_requests, tasks, conns, now, reply, rt, ar>>

\* proxy_start, proxy.rs:297-300: TcpListener::bind fails on an address in use
StartBind(c) ==
    /\ calls[c].pc = "s_bind"
    /\ IF <<calls[c].listen_host, calls[c].config.listen_port>> \in BoundAddrs
       THEN Return(c, Err("BIND_FAILED"))
       ELSE Goto(c, "s_spawn")
    /\ UNCHANGED <<runtime, snapshot, total_requests, tasks, conns, now, reply, rt, ar>>

\* proxy_start, proxy.rs:302-318: the counter is reset and the acceptor task
\* takes the listener
StartSpawn(c) ==
    /\ calls[c].pc = "s_spawn"
    /\ total_requests' = 0
    /\ tasks' = [tasks EXCEPT ![c] = [state |-> "running",
                    addr |-> <<calls[c].listen_host, calls[c].config.listen_port>>,
                    stop |-> FALSE, aborted |-> FALSE, old |-> conns[c]]]
    /\ calls' = [calls EXCEPT ![c].pc = "s_recheck", ![c].overwrote = total_requests]
    /\ UNCHANGED <<runtime, snapshot, conns, now, reply, rt, ar>>

\* proxy_start, proxy.rs:320-339: one critical section of the runtime mutex.
\* The losing call sends the stop signal, calls handle.abort() and returns
\* at once: it does not await the handle.
StartRecheck(c) ==
    /\ calls[c].pc = "s_recheck"
    /\ IF runtime # 0
       THEN /\ tasks' = [tasks EXCEPT ![c].stop = TRUE, ![c].aborted = TRUE]
            /\ Return(c, Err("ALREADY_RUNNING"))
            /\ UNCHANGED runtime
       ELSE /\ runtime' = c
            /\ Goto(c, "s_snap")
            /\ UNCHANGED tasks
    /\ UNCHANGED <<snapshot, total_requests, conns, now, reply, rt, ar>>

\* proxy_start, proxy.rs:341-350; current_timestamp (proxy.rs:984-989) never
\* runs backwards
StartSnapshot(c) ==
    /\ calls[c].pc = "s_snap"
    /\ \E t \in now..(IF now < MaxTime THEN now + 1 ELSE now) :
          /\ now' = t
          /\ snapshot' = [running |-> TRUE,
                          listen_host |-> Some(calls[c].listen_host),
                          listen_port |-> Some(calls[c].config.listen_port),
                          route_count |-> calls[c].route_count,
                          started_at |-> Some(t),
                          last_error |-> None,
                          message |-> <<"running", calls[c].route_count>>]
    /\ Goto(c, "s_status")
    /\ UNCHANGED <<runtime, total_requests, tasks, conns, reply, rt, ar>>

\* proxy_start, proxy.rs:352
StartReturn(c) ==
    /\ calls[c].pc = "s_status"
    /\ Return(c, Ok)
    /\ reply' = Some(status(snapshot, total_requests))
    /\ UNCHANGED <<runtime, snapshot, total_requests, tasks, conns, now, rt, ar>>

\* proxy_stop, proxy.rs:358-369: take the handle out of the mutex and send the
\* stop signal
StopTake(c) ==
    /\ calls[c].pc = "p_take"
    /\ runtime' = 0
    /\ calls' = [calls EXCEPT ![c].taken = runtime,
                              ![c].pc = IF runtime # 0 THEN "p_join" ELSE "p_snap"]
    /\ tasks' = IF runtime # 0 THEN [tasks EXCEPT ![runtime].stop = TRUE] ELSE tasks
    /\ UNCHANGED <<snapshot, total_requests, conns, now, reply, rt, ar>>

\* proxy_stop, proxy.rs:370: runtime.handle.await completes when the task ended
StopJoin(c) ==
    /\ calls[c].pc = "p_join"
    /\ tasks[calls[c].taken].state = "done"
    /\ Goto(c, "p_snap")
    /\ UNCHANGED <<runtime, snapshot, total_requests, tasks, conns, now, reply, rt, ar>>

\* proxy_stop, proxy.rs:373-384
StopSnapshot(c) ==
    /\ calls[c].pc = "p_snap"
    /\ snapshot' = [snapshot EXCEPT !.running = FALSE, !.listen_host = None,
                                    !.listen_port = None, !.started_at = None,
                                    !.route_count = 0, !.message = <<"stopped">>]
    /\ Goto(c, "p_status")
    /\ UNCHANGED <<runtime, total_requests, tasks, conns, now, reply, rt, ar>>

\* proxy_stop, proxy.rs:386
StopReturn(c) ==
    /\ calls[c].pc = "p_status"
    /\ Return(c, Ok)
    /\ reply' = Some(status(snapshot, total_requests))
    /\ UNCHANGED <<runtime, snapshot, total_requests, tasks, conns, now, rt, ar>>

\* set_runtime_error (proxy.rs:977-981)
set_runtime_error(snap, message) == [snap EXCEPT !.last_error = Some(message)]

\* run_proxy_server, proxy.rs:400-402: the stop branch of select! ends the task
AcceptorStop(t) ==
    /\ tasks[t].state = "running"
    /\ tasks[t].stop
    /\ tasks' = [tasks EXCEPT ![t].state = "done"]
    /\ UNCHANGED <<runtime, snapshot, total_requests, calls, conns, now, reply, rt, ar>>

\* JoinHandle::abort (proxy.rs:331): the runtime drops the task at a later poll
AcceptorAborted(t) ==
    /\ tasks[t].state = "running"
    /\ tasks[t].aborted
    /\ tasks' = [tasks EXCEPT ![t].state = "done"]
    /\ UNCHANGED <<runtime, snapshot, total_requests, calls, conns, now, reply, rt, ar>>

\* run_proxy_server, proxy.rs:405-435: accept and spawn a connection task
AcceptConn(t) ==
    /\ tasks[t].state = "running"
    /\ conns[t] < MaxConns
    /\ conns' = [conns EXCEPT ![t] = @ + 1]
    /\ UNCHANGED <<runtime, snapshot, total_requests, calls, tasks, now, reply, rt, ar>>

\* an accept error that ends the acceptor loop
AcceptErrorBreaks(t) ==
    /\ tasks[t].state = "running"
    /\ snapshot' = set_runtime_error(snapshot, "ACCEPT_FAILED")
    /\ tasks' = [tasks EXCEPT ![t].state = "done"]
    /\ UNCHANGED <<runtime, total_requests, calls, conns, now, reply, rt, ar>>

\* run_proxy_server, proxy.rs:436-439
AcceptError(t) ==
    /\ tasks[t].state = "running"
    /\ snapshot' = set_runtime_error(snapshot, "ACCEPT_FAILED")
    /\ UNCHANGED <<runtime, total_requests, calls, tasks, conns, now, reply, rt, ar>>

\* the connection task that takes the step is one of an earlier run
\* (survivor) or one of the acceptor that runs now
ConnTaskSteps(t, survivor) ==
    /\ conns[t] > 0
    /\ IF survivor THEN tasks[t].old > 0 ELSE conns[t] > tasks[t].old
    /\ conns' = [conns EXCEPT ![t] = @ - 1]
    /\ tasks' = [tasks EXCEPT ![t].old = IF survivor THEN @ - 1 ELSE @]

\* handle_proxy_request, proxy.rs:504-508: a request answered by the upstream
ConnForwarded(t) ==
    /\ \E survivor \in BOOLEAN : ConnTaskSteps(t, survivor)
    /\ total_requests < MaxRequests
    /\ total_requests' = total_requests + 1
    /\ UNCHANGED <<runtime, snapshot, calls, now, reply, rt, ar>>

\* handle_proxy_request, proxy.rs:509-515: the upstream request failed
ConnFailed(t) ==
    /\ \E survivor \in BOOLEAN : ConnTaskSteps(t, survivor)
    /\ snapshot' = set_runtime_error(snapshot, "FORWARD_FAILED")
    /\ UNCHANGED <<runtime, total_requests, calls, now, reply, rt, ar>>

IdleRoutes == rt = [pc |-> "idle"]

IdleArchive == ar = [pc |-> "idle"]

Init == InitProxy /\ IdleRoutes /\ IdleArchive

Next ==
    \/ \E c \in Calls : InvokeStart(c)
    \/ \E c \in Calls : InvokeStop(c)
    \/ \E c \in Calls : GetStatus(c)
    \/ \E c \in Calls : StartCheck(c)
    \/ \E c \in Calls : StartBind(c)
    \/ \E c \in Calls : StartSpawn(c)
    \/ \E c \in Calls : StartRecheck(c)
    \/ \E c \in Calls : StartSnapshot(c)
    \/ \E c \in Calls : StartReturn(c)
    \/ \E c \in Calls : StopTake(c)
    \/ \E c \in Calls : StopJoin(c)
    \/ \E c \in Calls : StopSnapshot(c)
    \/ \E c \in Calls : StopReturn(c)
    \/ \E t \in Calls : AcceptorStop(t)
    \/ \E t \in Calls : AcceptorAborted(t)
    \/ \E t \in Calls : AcceptConn(t)
    \/ \E t \in Calls : AcceptError(t)
    \/ \E t \in Calls : ConnForwarded(t)
    \/ \E t \in Calls : ConnFailed(t)

Spec == Init /\ [][Next]_vars

(***************************************************************************)
(* The same commands called one after the other: the frontend awaits each  *)
(* reply before it sends the next command.  A call frame is reused once    *)
(* its reply was delivered, so the sequences are of any length.  The       *)
(* acceptor and connection tasks still run concurrently with the commands. *)
(***************************************************************************)
Quiescent == \A c \in Calls : calls[c].pc \in {"idle", "done"}

MayInvokeSeq(c) ==
    /\ Quiescent
    /\ tasks[c].state # "running"
    /\ \A d \in Calls : d < c => tasks[d].state = "running"

SeqInvokeStart(c) ==
    /\ MayInvokeSeq(c)
    /\ \E cfg \in Configs :
          calls' = [[d \in Calls |-> IdleCall] EXCEPT ![c] = start_entry(cfg)]
    /\ UNCHANGED <<runtime, snapshot, total_requests, tasks, conns, now, reply, rt, ar>>

SeqInvokeStop(c) ==
    /\ MayInvokeSeq(c)
    /\ calls' = [[d \in Calls |-> IdleCall] EXCEPT
                    ![c].kind = "stop", ![c].pc = "p_take",
                    ![c].before = {t \in Calls : tasks[t].state = "running"}]
    /\ UNCHANGED <<runtime, snapshot, total_requests, tasks, conns, now, reply, rt, ar>>

SeqGetStatus(c) ==
    /\ MayInvokeSeq(c)
    /\ calls' = [[d \in Calls |-> IdleCall] EXCEPT ![c].kind = "status", ![c].pc = "done",
                                                  ![c].result = Ok]
    /\ reply' = Some(status(snapshot, total_requests))
    /\ UNCHANGED <<runtime, snapshot, total_requests, tasks, conns, now, rt, ar>>

NextSeq ==
    \/ \E c \in Calls : SeqInvokeStart(c)
    \/ \E c \in Calls : SeqInvokeStop(c)
    \/ \E c \in Calls : SeqGetStatus(c)
    \/ \E c \in Calls : StartCheck(c)
    \/ \E c \in Calls : StartBind(c)
    \/ \E c \in Calls : StartSpawn(c)
    \/ \E c \in Calls : StartRecheck(c)
    \/ \E c \in Calls : StartSnapshot(c)
    \/ \E c \in Calls : StartReturn(c)
    \/ \E c \in Calls : StopTake(c)
    \/ \E c \in Calls : StopJoin(c)
    \/ \E c \in Calls : StopSnapshot(c)
    \/ \E c \in Calls : StopReturn(c)
    \/ \E t \in Calls : AcceptorStop(t)
    \/ \E t \in Calls : AcceptConn(t)
    \/ \E t \in Calls : AcceptError(t)
    \/ \E t \in Calls : ConnForwarded(t)
    \/ \E t \in Calls : ConnFailed(t)

SpecSeq == Init /\ [][NextSeq]_vars

(***************************************************************************)
(* Claims about the proxy lifecycle                                        *)
(***************************************************************************)
\* a config that passes the validation of proxy_start
ValidConfig(cfg) ==
    /\ trim(cfg.listen_host) # <<>>
    /\ cfg.listen_port > 0
    /\ \E i \in 1..Len(cfg.routes) : cfg.routes[i].enabled
    /\ \A i \in 1..Len(cfg.routes) :
          cfg.routes[i].enabled => parse_target(cfg.routes[i].target).ok

EnabledCount(cfg) == Cardinality({i \in 1..Len(cfg.routes) : cfg.routes[i].enabled})

\* C1: when the only commands ever called are two proxy_start calls with valid
\* configs and both have returned, exactly one returned Ok, the other returned
\* ALREADY_RUNNING, and only the winner's acceptor task (with its listener)
\* exists.
C1_TwoStartsOneWinner ==
    \A w, l \in Calls :
        ( /\ w # l
          /\ \A d \in Calls \ {w, l} : calls[d].kind = "none"
          /\ calls[w].kind = "start" /\ calls[l].kind = "start"
          /\ ValidConfig(calls[w].config) /\ ValidConfig(calls[l].config)
          /\ calls[w].pc = "done" /\ calls[l].pc = "done"
          /\ (calls[w].result.ok \/ ~calls[l].result.ok) )
        => /\ calls[w].result.ok
           /\ ~calls[l].result.ok
           /\ calls[l].result.err = "ALREADY_RUNNING"
           /\ tasks[w].state = "running"
           /\ tasks[l].state # "running"

\* C2: whenever no command is in progress, snapshot.running holds iff the
\* runtime handle is present, and then the snapshot describes that acceptor.
C2_SnapshotAgreesWithRuntime ==
    Quiescent =>
        /\ snapshot.running <=> runtime # 0
        /\ runtime # 0 =>
              /\ snapshot.listen_host = Some(tasks[runtime].addr[1])
              /\ snapshot.listen_port = Some(tasks[runtime].addr[2])
              /\ snapshot.started_at.some
              /\ snapshot.route_count = calls[runtime].route_count

\* the call whose reply was delivered last, in a sequence of commands
LastCall(c) == Quiescent /\ calls[c].pc = "done"

StoppedStatus(st) ==
    /\ ~st.running
    /\ st.listen_host = None /\ st.listen_port = None /\ st.started_at = None
    /\ st.route_count = 0

\* C3 as claimed: after a proxy_start that returned Ok the status has running,
\* the requested listen host and port, no last error and the number of enabled
\* routes; after a proxy_stop it is the stopped status.
C3_StatusAfterCommand_AsClaimed ==
    \A c \in Calls : LastCall(c) =>
        LET st == status(snapshot, total_requests)
        IN  /\ (calls[c].kind = "start" /\ calls[c].result.ok) =>
                  /\ st.running
                  /\ st.listen_host = Some(calls[c].config.listen_host)
                  /\ st.listen_port = Some(calls[c].config.listen_port)
                  /\ st.last_error = None
                  /\ st.route_count = EnabledCount(calls[c].config)
            /\ calls[c].kind = "stop" => StoppedStatus(st)

\* the state part of C3 as amended: the listen host is the requested host
\* with surrounding white space removed
C3_StatusAfterCommandInv ==
    \A c \in Calls : LastCall(c) =>
        LET st == status(snapshot, total_requests)
        IN  /\ (calls[c].kind = "start" /\ calls[c].result.ok) =>
                  /\ st.running
                  /\ st.listen_host = Some(trim(calls[c].config.listen_host))
                  /\ st.listen_port = Some(calls[c].config.listen_port)
                  /\ st.route_count = EnabledCount(calls[c].config)
                  /\ reply = Some([st EXCEPT !.last_error = reply.v.last_error,
                                             !.total_requests = reply.v.total_requests])
            /\ calls[c].kind = "stop" =>
                  /\ StoppedStatus(st)
                  /\ reply.some /\ StoppedStatus(reply.v)

\* C3 as amended: as claimed, but listenHost is the requested host trimmed, and
\* lastError is cleared by the start's own snapshot update (an acceptor or
\* connection task may record a new error right after it).
C3_StatusAfterCommand ==
    /\ []C3_StatusAfterCommandInv
    /\ [][\A c \in Calls :
            (calls[c].pc = "s_snap" /\ calls'[c].pc = "s_status")
                => snapshot'.last_error = None]_vars

\* C3 witness: a start with a padded listen host returned Ok, and later a stop
\* was the last command
C3_Witness ==
    /\ \E c \in Calls : LastCall(c) /\ calls[c].kind = "stop" /\ calls[c].taken # 0
    /\ \E t \in Calls : tasks[t].state = "done" /\ tasks[t].addr[2] = 2

(***************************************************************************)
(* Route table: build_routes over a list of route inputs, then             *)
(* select_route for requests, as handle_proxy_request calls them           *)
(* (proxy.rs:459-470).                                                     *)
(***************************************************************************)
MaxRoutes == 3

TargetPort(ch) == Txt("http://") \o HostH \o <<":", ch>>

SecureTargetPort(scheme, ch) == Txt(scheme) \o HostH \o <<":", ch>>

\* route inputs as the frontend sends them (not normalised)
RouteInputs ==
    { [RouteA EXCEPT !.target = TargetPort("1")],
      [RouteA EXCEPT !.host = <<"B">>, !.target = SecureTargetPort("https://", "2"),
                     !.allow_insecure_tls = TRUE],
      [RouteA EXCEPT !.path_prefix = <<"/", "a", "/", "b", "/">>, !.target = TargetPort("3"),
                     !.allow_insecure_tls = TRUE],
      [RouteA EXCEPT !.host = <<"*">>, !.path_prefix = <<>>, !.target = TargetPort("4")],
      [RouteA EXCEPT !.host = <<"b", ":", "8">>, !.path_prefix = <<"a">>,
                     !.target = <<"W", "S", "S", ":", "/", "/">> \o HostH \o <<":", "5">>],
      [RouteA EXCEPT !.host = <<"b">>, !.path_prefix = <<"/", "/">>,
                     !.target = SecureTargetPort("wss://", "6"),
                     !.allow_insecure_tls = TRUE],
      [RouteOff EXCEPT !.path_prefix = <<"/", "a", "/", "b">>],
      RouteBad }

RequestHosts == {None, Some(<<"b">>), Some(<<"B", ":", "9">>), Some(<<"a">>), Some(<<"*">>)}

RequestPaths == { <<"/">>, <<"/", "a">>, <<"/", "a", "b">>, <<"/", "a", "/", "b">>,
                  <<"/", "a", "/", "b", "/", "a">>, <<"/", "b">> }

SeqsUpTo(S, n) == UNION {[1..k -> S] : k \in 0..n}

InitRoutes ==
    /\ InitProxy
    /\ IdleArchive
    /\ \E inputs \in SeqsUpTo(RouteInputs, MaxRoutes) :
          rt = [pc |-> "input", inputs |-> inputs]

\* proxy_start, proxy.rs:282
BuildRoutes ==
    /\ rt.pc = "input"
    /\ LET built == build_routes(rt.inputs)
       IN  rt' = IF built.ok
                 THEN [pc |-> "built", inputs |-> rt.inputs, routes |-> built.routes]
                 ELSE [pc |-> "rejected", inputs |-> rt.inputs, err |-> built.err]
    /\ UNCHANGED <<runtime, snapshot, total_requests, calls, tasks, conns, now, reply, ar>>

\* select_upstream_client that looks at allow_insecure_tls only
select_upstream_client_any_scheme(route) ==
    IF route.allow_insecure_tls THEN "insecure" ELSE "secure"

\* select_upstream_client: which of the two clients of ProxyClients
select_upstream_client(route) ==
    IF route.allow_insecure_tls /\ route.target_scheme = "Https" THEN "insecure"
    ELSE "secure"

\* handle_proxy_request, proxy.rs:459-470 and 497; every target of
\* RouteInputs that parses gives a URI and a Host value that are accepted
SelectRoute ==
    /\ rt.pc \in {"built", "selected"}
    /\ \E host \in RequestHosts, path \in RequestPaths :
          LET route == select_route(rt.routes, extract_request_host(host), path)
          IN  rt' = [pc |-> "selected", inputs |-> rt.inputs, routes |-> rt.routes,
                     host |-> host, path |-> path, selected |-> route,
                     client |-> IF route.some THEN select_upstream_client(route.v)
                                ELSE "none"]
    /\ UNCHANGED <<runtime, snapshot, total_requests, calls, tasks, conns, now, reply, ar>>

NextRoutes == BuildRoutes \/ SelectRoute

SpecRoutes == InitRoutes /\ [][NextRoutes]_vars

\* the request Host as the route table compares it: lower-cased, port removed
HostOfRequest(h) == split_first(to_ascii_lowercase(h), ":")

\* input i of the request is enabled and matches the request (host, path)
InputMatches(inputs, i, host, path) ==
    /\ inputs[i].enabled
    /\ path_match(normalize_path_prefix(inputs[i].path_prefix), path)
    /\ LET want == normalize_host_value(inputs[i].host)
       IN  want.some => (host.some /\ HostOfRequest(host.v) = want.v)

\* C10: select_route(build_routes(R), host, path) is None iff no enabled
\* route matches; otherwise it is a matching route of R whose prefix is of
\* maximal length among the matching routes and, when a host-specific route
\* with that prefix matches too, a host-specific one.
C10_LongestPrefixThenHost ==
    rt.pc = "selected" =>
        LET hits == {i \in 1..Len(rt.inputs) : InputMatches(rt.inputs, i, rt.host, rt.path)}
            Pre(i) == normalize_path_prefix(rt.inputs[i].path_prefix)
            sel == rt.selected
        IN  /\ sel.some <=> hits # {}
            /\ sel.some =>
                  /\ \E i \in hits : sel.v = make_route(rt.inputs[i])
                  /\ \A i \in hits : Len(Pre(i)) <= Len(sel.v.path_prefix)
                  /\ (\E i \in hits : /\ Pre(i) = sel.v.path_prefix
                                      /\ normalize_host_value(rt.inputs[i].host).some)
                        => sel.v.host.some

\* C10 witness: a wildcard route precedes, in the request, both a longer
\* prefix and a host-specific route with its own prefix, and all of them match
C10_Witness ==
    /\ rt.pc = "selected"
    /\ rt.selected.some /\ rt.selected.v.host.some
    /\ \E i, j, k \in 1..Len(rt.inputs) :
          /\ i < j /\ i < k
          /\ InputMatches(rt.inputs, i, rt.host, rt.path)
          /\ InputMatches(rt.inputs, j, rt.host, rt.path)
          /\ InputMatches(rt.inputs, k, rt.host, rt.path)
          /\ ~normalize_host_value(rt.inputs[i].host).some
          /\ Len(normalize_path_prefix(rt.inputs[i].path_prefix))
                < Len(normalize_path_prefix(rt.inputs[j].path_prefix))
          /\ normalize_path_prefix(rt.inputs[k].path_prefix) = rt.selected.v.path_prefix
          /\ ~normalize_host_value(rt.inputs[k].host).some

(***************************************************************************)
(* Archive codec (commands/archive.rs).                                    *)
(*                                                                         *)
(* A byte string is a sequence of segments [w, off, n]: the n bytes that   *)
(* start at offset off of the buffer given to the w-th write call.  Two    *)
(* byte strings are equal exactly when they hold the same bytes of the     *)
(* same buffers in the same order; adjacent segments of one buffer are     *)
(* kept merged, so equal strings have equal representations.               *)
(***************************************************************************)
MAGIC_HEADER == <<"K", "R", "A", "T", "E", "_", "P", "K", "G", "0">>

VERSION_V1 == 1

FLAG_ENCRYPTED == 1

FLAG_COMPRESSED == 2

PLAIN_CHUNK == 65536

\* Vec::<u8>::new()
NoBytes == <<>>

RECURSIVE bytes_len(_)
\* Vec::len / <[u8]>::len
bytes_len(s) == IF s = <<>> THEN 0 ELSE Head(s).n + bytes_len(Tail(s))

\* Vec::extend_from_slice, archive.rs:174
extend_from_slice(s, t) ==
    IF s = <<>> THEN t
    ELSE IF t = <<>> THEN s
    ELSE LET a == s[Len(s)]
             b == t[1]
         IN  IF a.w = b.w /\ a.off + a.n = b.off
             THEN SubSeq(s, 1, Len(s) - 1) \o <<[a EXCEPT !.n = a.n + b.n]>> \o Tail(t)
             ELSE s \o t

RECURSIVE slice_to(_, _)
\* &v[..k]: the first k bytes (all of v when it is shorter)
slice_to(s, k) ==
    IF k <= 0 \/ s = <<>> THEN <<>>
    ELSE IF Head(s).n <= k
         THEN extend_from_slice(<<Head(s)>>, slice_to(Tail(s), k - Head(s).n))
         ELSE <<[Head(s) EXCEPT !.n = k]>>

RECURSIVE slice_from(_, _)
\* &v[k..]: what is left after the first k bytes
slice_from(s, k) ==
    IF k <= 0 \/ s = <<>> THEN s
    ELSE IF Head(s).n <= k
         THEN slice_from(Tail(s), k - Head(s).n)
         ELSE <<[Head(s) EXCEPT !.off = @ + k, !.n = @ - k]>> \o Tail(s)

\* std::cmp::min, archive.rs:272
min(a, b) == IF a <= b THEN a ELSE b

\* pack_chunk_header that never sets the top bit
pack_chunk_header_no_flag(is_last, len) ==
    << (len \div 16777216) % 128, (len \div 65536) % 256, (len \div 256) % 256, len % 256 >>

\* archive.rs:34-40.  The u32 is kept as its four big-endian bytes.
pack_chunk_header(is_last, len) ==
    LET b0 == (len \div 16777216) % 256
    IN  << IF is_last /\ b0 < 128 THEN b0 + 128 ELSE b0,
           (len \div 65536) % 256,
           (len \div 256) % 256,
           len % 256 >>

\* unpack_chunk_header that reads the length from the low three bytes only
unpack_chunk_header_low24(b) ==
    [is_last |-> b[1] >= 128,
     len     |-> b[2] * 65536 + b[3] * 256 + b[4]]

\* archive.rs:42-47
unpack_chunk_header(b) ==
    [is_last |-> b[1] >= 128,
     len     |-> (b[1] % 128) * 16777216 + b[2] * 65536 + b[3] * 256 + b[4]]

\* derive_key that does not depend on the password
derive_key_ignores_password(password, salt) == <<<<>>, salt>>

\* Argon2 (archive.rs:280-286), idealised: distinct (password, salt) pairs
\* give distinct keys.
derive_key(password, salt) == <<password, salt>>

\* EncryptorBE32::from_aead / DecryptorBE32::from_aead, archive.rs:395, 596:
\* the STREAM state is the key, the nonce prefix and the 32-bit counter.
from_aead(key, nonce) == [key |-> key, nonce |-> nonce, ctr |-> 0]

\* A ciphertext is the plaintext sealed under (key, nonce, counter, last
\* flag); ok is FALSE once any of its bytes was modified.
seal(st, last, pt) ==
    [key |-> st.key, nonce |-> st.nonce, ctr |-> st.ctr, last |-> last,
     pt |-> pt, ok |-> TRUE]

\* ct.len(): the plaintext plus the 16-byte Poly1305 tag
ct_len(ct) == bytes_len(ct.pt) + 16

\* EncryptorBE32::encrypt_next, archive.rs:137-139
encrypt_next(st, pt) ==
    [ct |-> seal(st, FALSE, pt), enc |-> [st EXCEPT !.ctr = @ + 1]]

\* EncryptorBE32::encrypt_last, archive.rs:159-161
encrypt_last(st, pt) == seal(st, TRUE, pt)

\* One frame as written by lines 141-143 / 163-165: header bytes and the
\* ciphertext, of which ctn bytes are in the file.
write_frame(is_last, ct) ==
    [hdr |-> pack_chunk_header(is_last, ct_len(ct)), ct |-> ct, ctn |-> ct_len(ct)]

\* StreamEncryptWriter::new, archive.rs:120-126
new_writer(inner, enc) == [inner |-> inner, enc |-> Some(enc), buf |-> NoBytes]

RECURSIVE flush_chunks_short(_)
\* flush_chunks that drains PLAIN_CHUNK bytes but encrypts one byte fewer
flush_chunks_short(w) ==
    IF bytes_len(w.buf) >= PLAIN_CHUNK
    THEN LET e == encrypt_next(w.enc.v, slice_to(w.buf, PLAIN_CHUNK - 1))
         IN  flush_chunks_short([inner |-> Append(w.inner, write_frame(FALSE, e.ct)),
                                 enc   |-> Some(e.enc),
                                 buf   |-> slice_from(w.buf, PLAIN_CHUNK)])
    ELSE w

RECURSIVE flush_chunks(_)
\* StreamEncryptWriter::flush_chunks, archive.rs:128-146.  The encryptor is
\* present whenever this runs: only finish, which consumes the writer,
\* takes it.
flush_chunks(w) ==
    IF bytes_len(w.buf) >= PLAIN_CHUNK
    THEN LET chunk == slice_to(w.buf, PLAIN_CHUNK)
             e     == encrypt_next(w.enc.v, chunk)
         IN  flush_chunks([inner |-> Append(w.inner, write_frame(FALSE, e.ct)),
                           enc   |-> Some(e.enc),
                           buf   |-> slice_from(w.buf, PLAIN_CHUNK)])
    ELSE w

\* write that buffers its input and leaves the framing to finish
write_without_flush(w, buf) == [w EXCEPT !.buf = extend_from_slice(w.buf, buf)]

\* <StreamEncryptWriter as Write>::write, archive.rs:173-177
write(w, buf) == flush_chunks([w EXCEPT !.buf = extend_from_slice(w.buf, buf)])

\* StreamEncryptWriter::finish, archive.rs:148-169: returns the sink
finish(w) ==
    LET w2 == flush_chunks(w)
        ct == encrypt_last(w2.enc.v, w2.buf)
    IN  Append(w2.inner, write_frame(TRUE, ct))

\* StreamDecryptReader::new, archive.rs:195-203.  pos is the index of the
\* frame at which the inner reader stands, decrypts the number of
\* decrypt_next / decrypt_last calls made so far.
new_reader(dec) ==
    [pos |-> 1, dec |-> Some(dec), done |-> FALSE, out_buf |-> NoBytes, out_pos |-> 0,
     decrypts |-> 0]

RECURSIVE frames_len(_)
\* number of bytes the frames occupy in the file
frames_len(fs) ==
    IF fs = <<>> THEN 0 ELSE Len(Head(fs).hdr) + Head(fs).ctn + frames_len(Tail(fs))

\* DecryptorBE32::decrypt_next / decrypt_last (archive.rs:240-249) on the n
\* bytes that follow the header of frame f: the tag verifies exactly when
\* the bytes are the whole unmodified ciphertext and it was sealed under
\* the decryptor's key, nonce and counter with the same last flag.
authentic(dec, is_last, f, n) ==
    /\ n = f.ctn
    /\ f.ctn = ct_len(f.ct)
    /\ f.ct.ok
    /\ f.ct.key = dec.key
    /\ f.ct.nonce = dec.nonce
    /\ f.ct.ctr = dec.ctr
    /\ f.ct.last = is_last

\* StreamDecryptReader::refill, archive.rs:205-257.  res is "true", "false"
\* or the message of the io::Error.
refill(r, payload) ==
    IF r.done THEN [r |-> r, res |-> "false"]
    ELSE IF r.pos > Len(payload) \/ Len(payload[r.pos].hdr) < 4
    \* read_exact(&mut hdr) reports UnexpectedEof: lines 214-218
    THEN [r |-> [r EXCEPT !.done = TRUE], res |-> "false"]
    ELSE LET f    == payload[r.pos]
             h    == unpack_chunk_header(f.hdr)
             rest == f.ctn + frames_len(SubSeq(payload, r.pos + 1, Len(payload)))
         IN  IF h.len = 0
             THEN [r |-> r, res |-> "invalid chunk length"]
             ELSE IF h.len > rest
             THEN [r |-> r, res |-> "failed to fill whole buffer"]
             ELSE IF ~r.dec.some
             THEN [r |-> r, res |-> "decryptor consumed"]
             ELSE IF h.is_last
             THEN IF authentic(r.dec.v, TRUE, f, h.len)
                  THEN [r |-> [r EXCEPT !.pos = @ + 1, !.dec = None, !.done = TRUE,
                                        !.out_buf = f.ct.pt, !.out_pos = 0,
                                        !.decrypts = @ + 1],
                        res |-> "true"]
                  ELSE [r |-> [r EXCEPT !.dec = None, !.decrypts = @ + 1],
                        res |-> "decrypt_last failed"]
             ELSE IF authentic(r.dec.v, FALSE, f, h.len)
                  THEN [r |-> [r EXCEPT !.pos = @ + 1,
                                        !.dec = Some([r.dec.v EXCEPT !.ctr = @ + 1]),
                                        !.out_buf = f.ct.pt, !.out_pos = 0,
                                        !.decrypts = @ + 1],
                        res |-> "true"]
                  ELSE [r |-> [r EXCEPT !.dec = None, !.decrypts = @ + 1],
                        res |-> "decrypt_next failed"]

\* <StreamDecryptReader as Read>::read, archive.rs:261-276, for a buffer of
\* n bytes: res is "ok" with the bytes copied out, or the error message.
read(r, n, payload) ==
    LET need == r.out_pos >= bytes_len(r.out_buf)
        rf   == IF need
                THEN refill([r EXCEPT !.out_buf = NoBytes, !.out_pos = 0], payload)
                ELSE [r |-> r, res |-> "true"]
    IN  IF rf.res = "false" THEN [r |-> rf.r, res |-> "ok", out |-> NoBytes]
        ELSE IF rf.res # "true" THEN [r |-> rf.r, res |-> rf.res, out |-> NoBytes]
        ELSE LET k == min(n, bytes_len(rf.r.out_buf) - rf.r.out_pos)
             IN  [r   |-> [rf.r EXCEPT !.out_pos = @ + k],
                  res |-> "ok",
                  out |-> slice_to(slice_from(rf.r.out_buf, rf.r.out_pos), k)]

MaxWrites == 3

\* password arguments of create_archive and extract_archive
CreatePasswords == {None, Some(<<>>), Some(<<"p">>)}

ExtractPasswords == {None, Some(<<>>), Some(<<"p">>), Some(<<"q">>)}

\* sizes of the buffers gzip hands to the payload writer
WriteSizes == {1, PLAIN_CHUNK - 1, PLAIN_CHUNK, PLAIN_CHUNK + 1}

\* sizes of the buffers the gzip decoder reads into
ReadSizes == {40000, PLAIN_CHUNK \div 2, PLAIN_CHUNK}

\* OsRng, archive.rs:358-364
Salts == {"salt"}

StreamNonces == {"nonce"}

\* String::is_empty, archive.rs:336, 587
is_empty(s) == s = <<>>

\* Option::unwrap_or_default, archive.rs:586
unwrap_or_default(o) == IF o.some THEN o.v ELSE <<>>

\* encrypted whenever a password is given, empty or not
is_encrypted_if_present(password) == password.some

\* archive.rs:336
is_encrypted(password) == IF password.some THEN ~is_empty(password.v) ELSE FALSE

\* The container header of lines 332-383, and how many of its bytes the
\* file holds (fewer than header_len only after a truncation).
new_header(encrypted, lvl, salt, nonce) ==
    [magic     |-> MAGIC_HEADER,
     version   |-> VERSION_V1,
     flags     |-> IF encrypted THEN FLAG_COMPRESSED + FLAG_ENCRYPTED ELSE FLAG_COMPRESSED,
     lvl       |-> lvl,
     salt_len  |-> IF encrypted THEN 16 ELSE 0,
     salt      |-> IF encrypted THEN salt ELSE "",
     nonce_len |-> IF encrypted THEN 7 ELSE 0,
     nonce     |-> IF encrypted THEN nonce ELSE ""]

header_len(h) == 10 + 1 + 1 + 1 + 1 + h.salt_len + 1 + h.nonce_len

NoArchive ==
    [pc |-> "create", cpw |-> None, header |-> new_header(FALSE, 9, "", ""), hlen |-> 0,
     frames |-> <<>>, raw |-> NoBytes, w |-> None, input |-> NoBytes, nwrites |-> 0,
     tamper |-> [kind |-> "none", f |-> 0], xpw |-> None, mode |-> "none", r |-> None,
     rawpos |-> 0, got |-> NoBytes, kdf |-> 0, cresult |-> Pending, result |-> Pending,
     last_read |-> "none"]

InitArchive ==
    /\ InitProxy
    /\ IdleRoutes
    /\ \E pw \in CreatePasswords : ar = [NoArchive EXCEPT !.cpw = pw]

\* create_archive_blocking, archive.rs:304-412 / 440-451: scan, header,
\* key and payload writer
CreateOpen ==
    /\ ar.pc = "create"
    /\ \E total \in {0, 1}, gzip_level \in {None, Some(12)}, salt \in Salts, nonce \in StreamNonces :
          LET encrypted == is_encrypted(ar.cpw)
              lvl       == min(IF gzip_level.some THEN gzip_level.v ELSE 9, 9)
              h         == new_header(encrypted, lvl, salt, nonce)
              enc       == from_aead(derive_key(ar.cpw.v, salt), nonce)
          IN  IF total = 0
              THEN ar' = [ar EXCEPT !.pc = "failed", !.cresult = Err("NO_FILES")]
              ELSE ar' = [ar EXCEPT !.pc = "packing", !.header = h, !.hlen = header_len(h),
                                    !.w = IF encrypted THEN Some(new_writer(<<>>, enc)) ELSE None]
    /\ UNCHANGED <<runtime, snapshot, total_requests, calls, tasks, conns, now, reply, rt>>

\* One write call of the gzip encoder into the payload writer
\* (archive.rs:414-432, 453-471): the n bytes of the call's buffer.
PackWrite ==
    /\ ar.pc = "packing"
    /\ ar.nwrites < MaxWrites
    /\ \E n \in WriteSizes :
          LET buf == <<[w |-> ar.nwrites + 1, off |-> 0, n |-> n]>>
          IN  ar' = [ar EXCEPT !.nwrites = @ + 1,
                               !.input = extend_from_slice(@, buf),
                               !.w = IF @.some THEN Some(write(@.v, buf)) ELSE @,
                               !.raw = IF ar.w.some THEN @ ELSE extend_from_slice(@, buf)]
    /\ UNCHANGED <<runtime, snapshot, total_requests, calls, tasks, conns, now, reply, rt>>

\* archive.rs:431-437 / 469-471 and 474-484: gzip has written its whole
\* stream (never empty), the encrypt writer is finished, Ok(()) returned
PackFinish ==
    /\ ar.pc = "packing"
    /\ ar.nwrites > 0
    /\ ar' = [ar EXCEPT !.pc = "packed",
                        !.frames = IF ar.w.some THEN finish(ar.w.v) ELSE <<>>,
                        !.w = None,
                        !.cresult = Ok]
    /\ UNCHANGED <<runtime, snapshot, total_requests, calls, tasks, conns, now, reply, rt>>

(***************************************************************************)
(* Damage to a finished encrypted archive, done by the environment between *)
(* create_archive and extract_archive; one change per archive.             *)
(***************************************************************************)
Tamper(kind, f) == [kind |-> kind, f |-> f]

Untouched == ar.pc = "packed" /\ ar.tamper.kind = "none" /\ ar.frames # <<>>

\* frame f cut down to its first keep bytes
cut_frame(f, keep) ==
    [hdr |-> SubSeq(f.hdr, 1, min(keep, 4)), ct |-> f.ct,
     ctn |-> IF keep > 4 THEN keep - 4 ELSE 0]

\* The file loses its tail: it ends at a frame boundary (keep = 0), inside
\* the header of frame i or inside its ciphertext.
TruncatePayload ==
    /\ Untouched
    /\ \E i \in 1..Len(ar.frames) :
         \E keep \in {0, 1, 3, 4, 5, 3 + ar.frames[i].ctn} :
            ar' = [ar EXCEPT !.tamper = Tamper("truncate", i),
                             !.frames = SubSeq(@, 1, i - 1) \o
                                        (IF keep = 0 THEN <<>> ELSE <<cut_frame(@[i], keep)>>)]
    /\ UNCHANGED <<runtime, snapshot, total_requests, calls, tasks, conns, now, reply, rt>>

\* The file ends inside the container header.
TruncateHeader ==
    /\ Untouched
    /\ \E keep \in {9, 11, 20, header_len(ar.header) - 1} :
          ar' = [ar EXCEPT !.tamper = Tamper("truncate", 0), !.hlen = keep, !.frames = <<>>]
    /\ UNCHANGED <<runtime, snapshot, total_requests, calls, tasks, conns, now, reply, rt>>

\* values a changed byte may take
flipped(b) == {0, (b + 1) % 256, (b + 255) % 256, (b + 128) % 256} \ {b}

\* One byte of the header of frame i changes.
FlipHeaderByte ==
    /\ Untouched
    /\ \E i \in 1..Len(ar.frames), k \in 1..4 :
         \E v \in flipped(ar.frames[i].hdr[k]) :
            ar' = [ar EXCEPT !.tamper = Tamper("flip", i), !.frames[i].hdr[k] = v]
    /\ UNCHANGED <<runtime, snapshot, total_requests, calls, tasks, conns, now, reply, rt>>

\* One byte of the ciphertext or tag of frame i changes.
FlipCiphertextByte ==
    /\ Untouched
    /\ \E i \in 1..Len(ar.frames) :
          ar' = [ar EXCEPT !.tamper = Tamper("flip", i), !.frames[i].ct.ok = FALSE]
    /\ UNCHANGED <<runtime, snapshot, total_requests, calls, tasks, conns, now, reply, rt>>

SwapFrames ==
    /\ Untouched
    /\ \E i \in 1..Len(ar.frames), j \in 1..Len(ar.frames) :
          /\ i < j
          /\ ar' = [ar EXCEPT !.tamper = Tamper("swap", i),
                              !.frames = [@ EXCEPT ![i] = ar.frames[j], ![j] = ar.frames[i]]]
    /\ UNCHANGED <<runtime, snapshot, total_requests, calls, tasks, conns, now, reply, rt>>

\* a copy of frame i is inserted right after it
DuplicateFrame ==
    /\ Untouched
    /\ \E i \in 1..Len(ar.frames) :
          ar' = [ar EXCEPT !.tamper = Tamper("duplicate", i),
                           !.frames = SubSeq(@, 1, i) \o <<@[i]>> \o SubSeq(@, i + 1, Len(@))]
    /\ UNCHANGED <<runtime, snapshot, total_requests, calls, tasks, conns, now, reply, rt>>

RemoveFrame ==
    /\ Untouched
    /\ \E i \in 1..Len(ar.frames) :
          ar' = [ar EXCEPT !.tamper = Tamper("remove", i),
                           !.frames = SubSeq(@, 1, i - 1) \o SubSeq(@, i + 1, Len(@))]
    /\ UNCHANGED <<runtime, snapshot, total_requests, calls, tasks, conns, now, reply, rt>>

\* extract_archive_blocking with the key derived before the password is
\* checked
extract_open_derive_first(header, hlen, password) ==
    IF header.flags % 2 = 1
    THEN IF is_empty(unwrap_or_default(password))
         THEN [res |-> "PASSWORD_REQUIRED", kdf |-> 1]
         ELSE [res |-> "decrypt", kdf |-> 1,
               dec |-> from_aead(derive_key(unwrap_or_default(password), header.salt),
                                 header.nonce)]
    ELSE [res |-> "plain", kdf |-> 0]

\* extract_archive_blocking, archive.rs:508-598 / 607-608: the header is
\* read and checked and the payload reader is set up.  res is "decrypt",
\* "plain", "legacy" or the error returned; kdf counts derive_key calls.
extract_open(header, hlen, password) ==
    IF hlen < 10 THEN [res |-> "HEADER_UNREADABLE", kdf |-> 0]
    ELSE IF header.magic # MAGIC_HEADER THEN [res |-> "BAD_MAGIC", kdf |-> 0]
    ELSE IF hlen < 11 THEN [res |-> "failed to fill whole buffer", kdf |-> 0]
    ELSE IF header.version = 31 THEN [res |-> "legacy", kdf |-> 0]
    ELSE IF header.version # VERSION_V1 THEN [res |-> "UNSUPPORTED_VERSION", kdf |-> 0]
    ELSE IF hlen < 15 + header.salt_len + header.nonce_len
    THEN [res |-> "failed to fill whole buffer", kdf |-> 0]
    ELSE IF header.flags % 2 = 1
    THEN LET pw == unwrap_or_default(password)
         IN  IF is_empty(pw)
             THEN [res |-> "PASSWORD_REQUIRED", kdf |-> 0]
             ELSE [res |-> "decrypt", kdf |-> 1,
                   dec |-> from_aead(derive_key(pw, header.salt), header.nonce)]
    ELSE [res |-> "plain", kdf |-> 0]

\* extract_archive is called on the archive.  A damaged archive is opened
\* with the password it was created with.
ExtractOpen ==
    /\ ar.pc = "packed"
    /\ \E pw \in ExtractPasswords :
          /\ ar.tamper.kind # "none" => pw = ar.cpw
          /\ LET o == extract_open(ar.header, ar.hlen, pw)
             IN  ar' = IF o.res \in {"decrypt", "plain", "legacy"}
                       THEN [ar EXCEPT !.pc = "unpacking", !.xpw = pw, !.mode = o.res,
                                       !.kdf = o.kdf,
                                       !.r = IF o.res = "decrypt" THEN Some(new_reader(o.dec))
                                             ELSE None]
                       ELSE [ar EXCEPT !.pc = "extracted", !.xpw = pw, !.kdf = o.kdf,
                                       !.result = Err(o.res)]
    /\ UNCHANGED <<runtime, snapshot, total_requests, calls, tasks, conns, now, reply, rt>>

\* BufReader<File>::read on an unencrypted payload, archive.rs:607
read_plain(raw, rawpos, n) == slice_to(slice_from(raw, rawpos), n)

\* archive.unpack (archive.rs:601, 609) asks its reader for up to n more
\* bytes.  The gzip stream the archive was packed from is ar.input; a read
\* error, or the end of the data before that stream is whole, fails the
\* extraction.  last_read is what the last call of StreamDecryptReader::read
\* returned: bytes, the end of the stream (Ok(0)) or an error.
UnpackRead ==
    /\ ar.pc = "unpacking"
    /\ \E n \in ReadSizes :
          IF ar.mode = "decrypt"
          THEN LET rr == read(ar.r.v, n, ar.frames)
               IN  ar' = IF rr.res # "ok"
                         THEN [ar EXCEPT !.pc = "extracted", !.r = Some(rr.r),
                                         !.last_read = "error",
                                         !.result = Err(rr.res)]
                         ELSE IF rr.out # NoBytes
                         THEN [ar EXCEPT !.r = Some(rr.r), !.last_read = "bytes",
                                         !.got = extend_from_slice(@, rr.out)]
                         ELSE [ar EXCEPT !.pc = "extracted", !.r = Some(rr.r),
                                         !.last_read = "end",
                                         !.result = IF ar.got = ar.input THEN Ok
                                                    ELSE Err("unexpected end of file")]
          ELSE LET out == read_plain(ar.raw, ar.rawpos, n)
               IN  ar' = IF out # NoBytes
                         THEN [ar EXCEPT !.rawpos = @ + bytes_len(out),
                                         !.got = extend_from_slice(@, out)]
                         ELSE [ar EXCEPT !.pc = "extracted",
                                         !.result = IF ar.got = ar.input THEN Ok
                                                    ELSE Err("unexpected end of file")]
    /\ UNCHANGED <<runtime, snapshot, total_requests, calls, tasks, conns, now, reply, rt>>

\* archive.unpack returns Ok as soon as it has read the whole gzip stream,
\* without another read: archive.rs:601-622 / 609-622
UnpackDone ==
    /\ ar.pc = "unpacking"
    /\ ar.got = ar.input
    /\ ar' = [ar EXCEPT !.pc = "extracted", !.result = Ok]
    /\ UNCHANGED <<runtime, snapshot, total_requests, calls, tasks, conns, now, reply, rt>>

NextArchive ==
    \/ CreateOpen
    \/ PackWrite
    \/ PackFinish
    \/ TruncatePayload
    \/ TruncateHeader
    \/ FlipHeaderByte
    \/ FlipCiphertextByte
    \/ SwapFrames
    \/ DuplicateFrame
    \/ RemoveFrame
    \/ ExtractOpen
    \/ UnpackRead
    \/ UnpackDone

SpecArchive == InitArchive /\ [][NextArchive]_vars

Extracted == ar.pc = "extracted" /\ ar.cresult.ok

EncryptedArchive == ar.pc \in {"packed", "unpacking", "extracted"} /\ ar.header.flags % 2 = 1

\* C4: an archive created with password P (absent, empty or non-empty) and
\* extracted unchanged with the same P is extracted successfully, and the
\* bytes the payload reader handed out are, at every moment, the leading
\* bytes of the stream given to the payload writer, and all of it at the end.
C4_RoundTrip ==
    (ar.pc \in {"unpacking", "extracted"} /\ ar.tamper.kind = "none" /\ ar.xpw = ar.cpw)
       => /\ ar.got = slice_to(ar.input, bytes_len(ar.got))
          /\ ar.pc = "extracted" => (ar.result = Ok /\ ar.got = ar.input)

C4_Witness ==
    /\ Extracted
    /\ EncryptedArchive
    /\ ar.tamper.kind = "none"
    /\ ar.xpw = ar.cpw
    /\ ar.nwrites >= 2
    /\ Len(ar.frames) >= 3
    /\ ar.r.v.done
    /\ ar.result = Ok
    /\ ar.got = ar.input

\* C5: an encrypted archive that lost trailing bytes is never extracted
\* successfully with the correct password.
C5_TruncationFails ==
    (Extracted /\ EncryptedArchive /\ ar.tamper.kind = "truncate" /\ ar.xpw = ar.cpw)
       => ~ar.result.ok

\* C6: an encrypted archive in which one byte of a frame header or of a
\* ciphertext or tag changed is never extracted successfully with the
\* correct password.
C6_ByteFlipFails ==
    (Extracted /\ EncryptedArchive /\ ar.tamper.kind = "flip" /\ ar.xpw = ar.cpw)
       => ~ar.result.ok

\* C7: an archive encrypted with a non-empty password and extracted with a
\* different non-empty password fails with the error of a failed
\* decryption, and nothing of its content is handed to the unpacker.
C7_WrongPasswordFails ==
    (/\ ar.pc \in {"unpacking", "extracted"}
     /\ EncryptedArchive
     /\ ar.tamper.kind = "none"
     /\ ~is_empty(unwrap_or_default(ar.xpw))
     /\ ar.xpw # ar.cpw)
       => /\ ar.got = NoBytes
          /\ ar.pc = "extracted"
                => /\ ~ar.result.ok
                   /\ ar.result.err \in {"decrypt_next failed", "decrypt_last failed"}

C7_Witness ==
    /\ Extracted
    /\ EncryptedArchive
    /\ ar.tamper.kind = "none"
    /\ ar.cpw = Some(<<"p">>)
    /\ ar.xpw = Some(<<"q">>)
    /\ ar.kdf = 1
    /\ ar.r.v.decrypts = 1
    /\ ~ar.result.ok

\* C8: the frames are in the file in the order the encryptor produced them,
\* frame i under counter i, and an archive whose frames were swapped,
\* duplicated or had one frame removed is rejected.
C8_FrameOrderEnforced ==
    /\ (EncryptedArchive /\ ar.tamper.kind = "none")
          => \A i \in 1..Len(ar.frames) :
                /\ ar.frames[i].ct.ctr = i - 1
                /\ ar.frames[i].ct.last = (i = Len(ar.frames))
    /\ (Extracted /\ EncryptedArchive /\ ar.xpw = ar.cpw
           /\ ar.tamper.kind \in {"swap", "duplicate", "remove"})
          => ~ar.result.ok

\* C9: extracting an encrypted archive with an absent or empty password
\* fails with PASSWORD_REQUIRED, and neither a key derivation nor a
\* decryption nor a read of the payload has happened.
C9_PasswordRequiredFirst ==
    (/\ ar.pc \in {"unpacking", "extracted"}
     /\ EncryptedArchive
     /\ ar.hlen = header_len(ar.header)
     /\ is_empty(unwrap_or_default(ar.xpw)))
       => /\ ar.pc = "extracted"
          /\ ar.result = Err("PASSWORD_REQUIRED")
          /\ ar.kdf = 0
          /\ ar.r = None
          /\ ar.got = NoBytes

C9_Witness ==
    /\ Extracted
    /\ EncryptedArchive
    /\ ar.xpw \in {None, Some(<<>>)}
    /\ ar.result = Err("PASSWORD_REQUIRED")

(***************************************************************************)
(* path_match on its own: every prefix and path over a small alphabet.     *)
(***************************************************************************)
MaxPathLen == 3

PathChars == {"/", "a", "x"}

PathTexts == SeqsUpTo(PathChars, MaxPathLen)

InitPathMatch ==
    /\ InitProxy
    /\ IdleArchive
    /\ \E prefix \in PathTexts, path \in PathTexts :
          rt = [pc |-> "path_input", prefix |-> prefix, path |-> path]

\* the call of path_match in select_route, proxy.rs:944
PathMatch ==
    /\ rt.pc = "path_input"
    /\ rt' = [pc |-> "path_matched", prefix |-> rt.prefix, path |-> rt.path,
              matched |-> path_match(rt.prefix, rt.path)]
    /\ UNCHANGED <<runtime, snapshot, total_requests, calls, tasks, conns, now, reply, ar>>

NextPathMatch == PathMatch

SpecPathMatch == InitPathMatch /\ [][NextPathMatch]_vars

\* C11: path_match(prefix, path) is true exactly when prefix is "/", or
\* path equals prefix, or path starts with prefix immediately followed by
\* "/"; a prefix does not match a path that only continues its last segment.
C11_PathMatchBoundary ==
    rt.pc = "path_matched"
       => LET n == Len(rt.prefix)
          IN  rt.matched <=>
                 \/ rt.prefix = <<"/">>
                 \/ rt.path = rt.prefix
                 \/ /\ Len(rt.path) > n
                    /\ \A i \in 1..n : rt.path[i] = rt.prefix[i]
                    /\ rt.path[n + 1] = "/"

C11_Witness ==
    /\ rt.pc = "path_matched"
    /\ rt.prefix = <<"/", "a">>
    /\ rt.path = <<"/", "a", "x">>
    /\ ~rt.matched

\* the frames of a finished, untouched encrypted archive
WrittenFrames == ar.pc = "packed" /\ ar.tamper.kind = "none" /\ ar.header.flags % 2 = 1

\* C13: after any sequence of write calls and finish, exactly one emitted
\* frame has is_last set and it is the final one, no frame has ciphertext
\* length 0 (also when the plaintext left at finish is empty), and every
\* frame carries at most 64 KiB of plaintext, its length fitting the low 31
\* bits of the header.
C13_FrameInvariants ==
    WrittenFrames
       => /\ Len(ar.frames) >= 1
          /\ \A i \in 1..Len(ar.frames) :
                LET f == ar.frames[i]
                    h == unpack_chunk_header(f.hdr)
                IN  /\ h.is_last <=> (i = Len(ar.frames))
                    /\ h.len > 0
                    /\ h.len = ct_len(f.ct)
                    /\ f.ctn = h.len
                    /\ bytes_len(f.ct.pt) <= PLAIN_CHUNK
                    /\ f.hdr[1] % 128 = 0

C13_Witness ==
    /\ WrittenFrames
    /\ Len(ar.frames) = 3
    /\ ar.frames[3].ct.pt = NoBytes
    /\ unpack_chunk_header(ar.frames[3].hdr) = [is_last |-> TRUE, len |-> 16]

(***************************************************************************)
(* collect_entries (archive.rs:64-108) on a list of input paths.           *)
(***************************************************************************)
MaxInputs == 3

\* Paths the caller may pass: path is the whole path, base its file_name()
\* (None for a path such as "/"), kind what the file system holds there and
\* files the regular files WalkDir finds under a directory.
InputPaths ==
    { [path |-> "/x/a",   base |-> Some(<<"a">>), kind |-> "file", files |-> <<>>],
      [path |-> "/y/a",   base |-> Some(<<"a">>), kind |-> "dir",  files |-> <<"f">>],
      [path |-> "/z/a-2", base |-> Some(<<"a", "-", "2">>), kind |-> "file", files |-> <<>>],
      [path |-> "/",      base |-> None, kind |-> "dir", files |-> <<"g">>],
      [path |-> "/x/b",   base |-> Some(<<"b">>), kind |-> "missing", files |-> <<>>] }

RECURSIVE u32_to_string(_)
\* format!("{}", n), archive.rs:89
u32_to_string(n) ==
    LET d == <<"0", "1", "2", "3", "4", "5", "6", "7", "8", "9">>[(n % 10) + 1]
    IN  IF n < 10 THEN <<d>> ELSE u32_to_string(n \div 10) \o <<d>>

\* used_top.entry(base_name).or_insert(0), then += 1 (archive.rs:83-84):
\* seen lists the base names of the inputs handled so far
used_top_count(seen, base_name) ==
    Cardinality({k \in 1..Len(seen) : seen[k] = base_name}) + 1

\* archive.rs:86-90
top_name(base_name, n) ==
    IF n = 1 THEN base_name ELSE base_name \o <<"-">> \o u32_to_string(n)

RECURSIVE collect_from(_, _, _, _)
\* the loop of collect_entries from input i on; an entry is (src, arc), and
\* input is the position of the input it came from
collect_from(inputs, i, seen, out) ==
    IF i > Len(inputs) THEN [ok |-> TRUE, entries |-> out]
    ELSE LET src       == inputs[i]
             base_name == IF src.base.some THEN src.base.v ELSE <<"i", "n", "p", "u", "t">>
             top       == top_name(base_name, used_top_count(seen, base_name))
             found     == IF src.kind = "dir"
                          THEN [k \in 1..Len(src.files) |->
                                  [input |-> i, src |-> <<src.path, src.files[k]>>,
                                   arc |-> <<top, src.files[k]>>]]
                          ELSE <<[input |-> i, src |-> <<src.path>>, arc |-> <<top>>]>>
         IN  IF src.kind = "missing"
             THEN [ok |-> FALSE, err |-> "PATH_NOT_FOUND"]
             ELSE collect_from(inputs, i + 1, Append(seen, base_name), out \o found)

\* collect_entries, archive.rs:64-108
collect_entries(inputs) == collect_from(inputs, 1, <<>>, <<>>)

InitCollect ==
    /\ InitProxy
    /\ IdleRoutes
    /\ \E inputs \in SeqsUpTo(InputPaths, MaxInputs) :
          ar = [pc |-> "scan", inputs |-> inputs]

\* create_archive_blocking, archive.rs:321
CollectEntries ==
    /\ ar.pc = "scan"
    /\ ar' = [pc |-> "scanned", inputs |-> ar.inputs, res |-> collect_entries(ar.inputs)]
    /\ UNCHANGED <<runtime, snapshot, total_requests, calls, tasks, conns, now, reply, rt>>

NextCollect == CollectEntries

SpecCollect == InitCollect /\ [][NextCollect]_vars

\* C14: for a list of existing, pairwise different input paths,
\* collect_entries gives the inputs pairwise distinct top-level archive
\* names.
C14_DistinctTopNames ==
    (/\ ar.pc = "scanned"
     /\ ar.res.ok
     /\ \A i \in 1..Len(ar.inputs), j \in 1..Len(ar.inputs) :
           i # j => ar.inputs[i].path # ar.inputs[j].path)
       => \A e1 \in 1..Len(ar.res.entries), e2 \in 1..Len(ar.res.entries) :
             ar.res.entries[e1].input # ar.res.entries[e2].input
                => ar.res.entries[e1].arc[1] # ar.res.entries[e2].arc[1]

\* C15: a proxy_start that found another runtime registered on its re-check
\* has signalled stop to the acceptor task it spawned, and that task has
\* terminated (its listener is released) when proxy_start returns its error.
C15_LoserTaskJoined ==
    \A c \in Calls :
       (/\ calls[c].kind = "start"
        /\ calls[c].pc = "done"
        /\ calls[c].result = Err("ALREADY_RUNNING")
        /\ tasks[c].state # "none")
          => /\ tasks[c].stop
             /\ tasks[c].state = "done"

\* C16: once a proxy_stop call has returned, no acceptor task that was
\* running when the call was made is still accepting connections, under any
\* interleaving with other commands.
C16_StopJoinsAcceptor ==
    \A c \in Calls :
       (calls[c].kind = "stop" /\ calls[c].pc = "done")
          => \A t \in calls[c].before : tasks[t].state # "running"

\* C20: the acceptor task leaves its loop only when the stop signal has
\* fired; a step that records an accept error or a connection failure in
\* last_error leaves every acceptor as it was, so that it goes on accepting.
C20_AcceptorLeavesOnlyOnStop ==
    /\ [][\A t \in Calls :
            (tasks[t].state = "running" /\ tasks'[t].state # "running") => tasks[t].stop]_vars
    /\ [][(snapshot'.last_error # snapshot.last_error /\ snapshot'.last_error.some)
             => \A t \in Calls : [tasks'[t] EXCEPT !.old = 0] = [tasks[t] EXCEPT !.old = 0]]_vars

\* a connection accepted by the only acceptor after an earlier connection
\* of it had failed
C20_Witness ==
    /\ tasks[1].state = "running"
    /\ ~tasks[1].stop
    /\ tasks[2].state = "none"
    /\ conns[1] = MaxConns
    /\ snapshot.last_error = Some("FORWARD_FAILED")
(***************************************************************************)
(* One accepted connection: the connection task spawned by                 *)
(* run_proxy_server (proxy.rs:411-434), handle_proxy_request,              *)
(* forward_websocket and the tunnel task (proxy.rs:451-575).               *)
(*                                                                         *)
(* rt holds the route table, the request being handled, the request sent   *)
(* to the upstream, the last response written to the client and the state  *)
(* of the tunnel task.  A request is its Host header, its path and its     *)
(* other header lines in the order received.  A header line is a name (in  *)
(* lower case, as HeaderName keeps it) and a value, the value being the    *)
(* list of its comma-separated items.                                      *)
(***************************************************************************)
MaxServed == 2

\* a route whose target passes parse_target and does not parse as a URI
RouteSpace == [RouteA EXCEPT !.path_prefix = <<"/", "s">>,
                             !.target = Txt("http://") \o <<"h", " ", "h">>]

ServedRoutes == build_routes(<<RouteA, RouteB, RouteSpace>>).routes

\* one header line
Line(name, value) == [name |-> name, value |-> value]

\* the header lines of the requests sent by the client
RequestHeaders ==
    { <<>>,
      <<Line("connection", <<"keep-alive">>)>>,
      <<Line("upgrade", <<"WebSocket">>), Line("connection", <<"Upgrade">>)>>,
      <<Line("upgrade", <<"websocket">>), Line("connection", <<"keep-alive">>)>>,
      <<Line("upgrade", <<"websocket">>), Line("connection", <<"keep-alive">>),
        Line("connection", <<"Upgrade">>)>>,
      <<Line("transfer-encoding", <<"chunked">>)>>,
      <<Line("transfer-encoding", <<"gzip", "chunked">>), Line("connection", <<"keep-alive">>)>>,
      <<Line("upgrade", <<"websocket">>), Line("connection", <<"keep-alive", "Upgrade">>),
        Line("transfer-encoding", <<"chunked">>)>> }

Requests ==
    [host : {None, Some(<<"B">>)},
     path : { <<"/", "a">>, <<"/", "a", "/", "b">>, <<"/", "s">>, <<"/", "x">> },
     headers : RequestHeaders]

UpstreamStatuses == {101, 200, 502}

NoRequest == [host |-> None, path |-> <<>>, headers |-> <<>>]

\* str::to_ascii_lowercase on the header items of this model
lower_item(item) ==
    CASE item = "Upgrade"   -> "upgrade"
      [] item = "WebSocket" -> "websocket"
      [] item = "X-Foo"     -> "x-foo"
      [] item = "Keep-Alive" -> "keep-alive"
      [] OTHER -> item

\* HeaderMap::get: the first value of the name, None when absent
get(headers, name) ==
    LET at == {i \in 1..Len(headers) : headers[i].name = name}
    IN  IF at = {} THEN None
        ELSE Some(headers[CHOOSE i \in at : \A j \in at : i <= j].value)

\* HeaderMap::remove: every value of the name goes
remove(headers, name) == SelectSeq(headers, LAMBDA h : h.name # name)

\* HeaderMap::insert: the name has this one value afterwards
insert(headers, name, value) == Append(remove(headers, name), Line(name, value))

\* HeaderMap::contains_key
contains_key(headers, name) == \E i \in 1..Len(headers) : headers[i].name = name

\* TargetScheme::as_str
as_str(scheme) == IF scheme = "Https" THEN <<"h", "t", "t", "p", "s">>
                  ELSE <<"h", "t", "t", "p">>

\* ProxyRoute::target_authority
target_authority(route) ==
    IF route.target_port = default_port(route.target_scheme)
    THEN route.target_host
    ELSE route.target_host \o <<":">> \o u32_to_string(route.target_port)

\* rewrite_path_and_query that leaves the path as it is
rewrite_path_and_query_never_strips(path, query, route) ==
    IF query.some /\ query.v # <<>> THEN path \o <<"?">> \o query.v ELSE path

\* rewrite_path_and_query: path is uri.path(), query is uri.query()
rewrite_path_and_query(path, query, route) ==
    LET rest == strip_prefix(path, route.path_prefix)
        rewritten_path ==
            IF route.strip_prefix /\ route.path_prefix # <<"/">> /\ rest.some
            THEN IF rest.v = <<>> THEN <<"/">>
                 ELSE IF starts_with(rest.v, <<"/">>) THEN rest.v
                 ELSE <<"/">> \o rest.v
            ELSE path
    IN  IF query.some /\ query.v # <<>>
        THEN rewritten_path \o <<"?">> \o query.v
        ELSE rewritten_path

\* build_upstream_uri: the text is parsed as a Uri, which rejects a space;
\* the requests of this model carry no query
build_upstream_uri(path, route) ==
    LET uri_text == as_str(route.target_scheme) \o <<":", "/", "/">>
                       \o target_authority(route) \o rewrite_path_and_query(path, None, route)
    IN  IF count_char(uri_text, " ") > 0
        THEN [ok |-> FALSE, err |-> "BUILD_URI_FAILED"]
        ELSE [ok |-> TRUE, uri |-> uri_text]

\* is_websocket_upgrade: the Upgrade value is "websocket" and the Connection
\* value contains "upgrade", letter case aside; both values are read with
\* HeaderMap::get.  No item of this model has "upgrade" as a proper part, so
\* containing the text is having it as an item.
is_websocket_upgrade(request) ==
    LET upgrade    == unwrap_or_default(get(request.headers, "upgrade"))
        connection == unwrap_or_default(get(request.headers, "connection"))
    IN  /\ Len(upgrade) = 1
        /\ lower_item(upgrade[1]) = "websocket"
        /\ \E i \in 1..Len(connection) : lower_item(connection[i]) = "upgrade"

\* HeaderName::from_bytes accepts a token of the name characters only
valid_header_name(item) == item \notin {"", "x foo"}

RECURSIVE remove_connection_tokens(_, _, _)
\* the loop of sanitize_hop_headers over connection_tokens.split(','),
\* proxy.rs:669-677
remove_connection_tokens(headers, tokens, keep_upgrade) ==
    IF tokens = <<>> THEN headers
    ELSE LET item == lower_item(Head(tokens))
         IN  remove_connection_tokens(
                 IF item = "" \/ (keep_upgrade /\ item = "upgrade") THEN headers
                 ELSE IF valid_header_name(item) THEN remove(headers, item)
                 ELSE headers,
                 Tail(tokens), keep_upgrade)

\* the fixed hop-by-hop names of proxy.rs:679-690
HopHeaders ==
    <<"connection", "proxy-authenticate", "proxy-authorization", "te", "trailer",
      "transfer-encoding", "proxy-connection", "keep-alive">>

RECURSIVE remove_all(_, _)
remove_all(headers, names) ==
    IF names = <<>> THEN headers ELSE remove_all(remove(headers, Head(names)), Tail(names))

\* sanitize_hop_headers, proxy.rs:662-699
sanitize_hop_headers(headers, keep_upgrade) ==
    LET connection_tokens == unwrap_or_default(get(headers, "connection"))
        first  == remove_connection_tokens(headers, connection_tokens, keep_upgrade)
        second == remove_all(first, HopHeaders)
    IN  IF keep_upgrade
        THEN insert(second, "connection", <<"upgrade">>)
        ELSE insert(remove(second, "upgrade"), "connection", <<"close">>)

\* apply_proxy_headers: HeaderValue::from_str accepts every text without
\* control characters, so the Host value of a parsed URI is always accepted
apply_proxy_headers(request, route, keep_upgrade) ==
    [ok |-> TRUE,
     request |-> [request EXCEPT !.headers = sanitize_hop_headers(@, keep_upgrade),
                                 !.host = Some(target_authority(route))]]

\* handle_proxy_request up to the call of the upstream client
\* (proxy.rs:459-497): an answer of the proxy itself, or the request to send
prepare_request(routes, request) ==
    LET request_host == extract_request_host(request.host)
        route        == select_route(routes, request_host, request.path)
        upstream_uri == build_upstream_uri(request.path, route.v)
        websocket_upgrade == is_websocket_upgrade(request)
        applied      == apply_proxy_headers(request, route.v, websocket_upgrade)
    IN  IF ~route.some THEN [forward |-> FALSE, status |-> 404]
        ELSE IF ~upstream_uri.ok THEN [forward |-> FALSE, status |-> 400]
        ELSE IF ~applied.ok THEN [forward |-> FALSE, status |-> 400]
        ELSE [forward |-> TRUE, websocket |-> websocket_upgrade,
              request |-> [applied.request EXCEPT !.path = upstream_uri.uri]]

NoResponse == [status |-> 0, by |-> "none"]

InitRequest ==
    /\ InitProxy
    /\ IdleArchive
    /\ rt = [pc |-> "idle", routes |-> ServedRoutes, request |-> NoRequest,
             websocket |-> FALSE, sent |-> None, response |-> NoResponse,
             served |-> 0, tunnel |-> "none", ended |-> ""]

\* the client sends a request head on the connection; hyper calls the service
ClientSends ==
    /\ rt.pc = "idle"
    /\ rt.served < MaxServed
    /\ \E request \in Requests :
          rt' = [rt EXCEPT !.pc = "handling", !.request = request, !.sent = None,
                           !.websocket = FALSE, !.response = NoResponse,
                           !.served = @ + 1]
    /\ UNCHANGED <<runtime, snapshot, total_requests, calls, tasks, conns, now, reply, ar>>

\* handle_proxy_request, proxy.rs:459-502/504 and 537-539: answer 404 or
\* 400, or hand the rewritten request to the upstream client
HandleRequest ==
    /\ rt.pc = "handling"
    /\ LET p == prepare_request(rt.routes, rt.request)
       IN  IF p.forward
           THEN rt' = [rt EXCEPT !.pc = "upstream", !.websocket = p.websocket,
                                 !.sent = Some(p.request)]
           ELSE rt' = [rt EXCEPT !.pc = "idle",
                                 !.response = [status |-> p.status, by |-> "proxy"]]
    /\ UNCHANGED <<runtime, snapshot, total_requests, calls, tasks, conns, now, reply, ar>>

\* an upstream response that is counted twice
UpstreamRespondsCountsTwice ==
    /\ rt.pc = "upstream"
    /\ \E st \in UpstreamStatuses :
          rt' = [rt EXCEPT !.pc = IF rt.websocket /\ st = 101 THEN "upgraded" ELSE "idle",
                           !.response = [status |-> st, by |-> "upstream"],
                           !.tunnel = IF rt.websocket /\ st = 101 THEN "upgrading" ELSE @]
    /\ total_requests' = total_requests + 2
    /\ UNCHANGED <<runtime, snapshot, calls, tasks, conns, now, reply, ar>>

\* client.request returned Ok: proxy.rs:505-508, and for a WebSocket
\* request proxy.rs:540-566 (the tunnel task is spawned on status 101)
UpstreamResponds ==
    /\ rt.pc = "upstream"
    /\ \E st \in UpstreamStatuses :
          rt' = [rt EXCEPT !.pc = IF rt.websocket /\ st = 101 THEN "upgraded" ELSE "idle",
                           !.response = [status |-> st, by |-> "upstream"],
                           !.tunnel = IF rt.websocket /\ st = 101 THEN "upgrading" ELSE @]
    /\ total_requests' = total_requests + 1
    /\ UNCHANGED <<runtime, snapshot, calls, tasks, conns, now, reply, ar>>

\* client.request returned Err: proxy.rs:509-515 and 567-573
UpstreamFails ==
    /\ rt.pc = "upstream"
    /\ rt' = [rt EXCEPT !.pc = "idle", !.response = [status |-> 502, by |-> "proxy"]]
    /\ snapshot' = set_runtime_error(snapshot,
                      IF rt.websocket THEN "WS_FORWARD_FAILED" ELSE "FORWARD_FAILED")
    /\ UNCHANGED <<runtime, total_requests, calls, tasks, conns, now, reply, ar>>

\* serve_connection returned Ok: the client closed the connection
ClientCloses ==
    /\ rt.pc \in {"idle", "handling", "upstream"}
    /\ rt' = [rt EXCEPT !.pc = "closed", !.ended = "ok"]
    /\ UNCHANGED <<runtime, snapshot, total_requests, calls, tasks, conns, now, reply, ar>>

\* serve_connection returned Err (proxy.rs:425-433)
ConnError ==
    /\ rt.pc \in {"idle", "handling", "upstream"}
    /\ rt' = [rt EXCEPT !.pc = "closed", !.ended = "error"]
    /\ snapshot' = set_runtime_error(snapshot, "CONNECTION_FAILED")
    /\ UNCHANGED <<runtime, total_requests, calls, tasks, conns, now, reply, ar>>

\* tunnel task, proxy.rs:552-557: both upgrades resolved; the connection
\* task has handed its socket over and ended
UpgradeOk ==
    /\ rt.tunnel = "upgrading"
    /\ rt' = [rt EXCEPT !.pc = "closed", !.tunnel = "copying", !.ended = "upgraded"]
    /\ UNCHANGED <<runtime, snapshot, total_requests, calls, tasks, conns, now, reply, ar>>

\* tunnel task, proxy.rs:558-560
UpgradeErr ==
    /\ rt.tunnel = "upgrading"
    /\ rt' = [rt EXCEPT !.pc = "closed", !.tunnel = "done", !.ended = "upgraded"]
    /\ snapshot' = set_runtime_error(snapshot, "WS_UPGRADE_FAILED")
    /\ UNCHANGED <<runtime, total_requests, calls, tasks, conns, now, reply, ar>>

\* copy_bidirectional returned (proxy.rs:556): both directions reached end
\* of stream, or one of them failed
TunnelEnds ==
    /\ rt.tunnel = "copying"
    /\ rt' = [rt EXCEPT !.tunnel = "done"]
    /\ UNCHANGED <<runtime, snapshot, total_requests, calls, tasks, conns, now, reply, ar>>

NextRequest ==
    \/ ClientSends
    \/ HandleRequest
    \/ UpstreamResponds
    \/ UpstreamFails
    \/ ClientCloses
    \/ ConnError
    \/ UpgradeOk
    \/ UpgradeErr
    \/ TunnelEnds

SpecRequest == InitRequest /\ [][NextRequest]_vars
\* the program's own steps are taken when they can be; no peer is required
\* to send, answer or close
SpecRequestFair ==
    /\ SpecRequest
    /\ WF_vars(HandleRequest)
    /\ WF_vars(UpgradeOk \/ UpgradeErr)

\* C12: total_requests grows by exactly 1 when the upstream's response head
\* arrives for a plain HTTP request and when a WebSocket handshake succeeds
\* (status 101); it is unchanged when the proxy itself answers 404, 400 or
\* 502; no step changes it by more than 1 and it never exceeds the number of
\* requests received, so no request is counted twice.
C12_CounterPerRequest ==
    /\ [](total_requests <= rt.served)
    /\ [][LET answered == rt'.response # rt.response /\ rt'.response.by # "none"
          IN  /\ total_requests' \in {total_requests, total_requests + 1}
              /\ (answered /\ rt'.response.by = "upstream"
                    /\ (~rt.websocket \/ rt'.response.status = 101))
                   => total_requests' = total_requests + 1
              /\ (answered /\ rt'.response.by = "proxy")
                   => /\ rt'.response.status \in {404, 400, 502}
                      /\ total_requests' = total_requests]_vars

C12_Witness ==
    /\ rt.served = MaxServed
    /\ total_requests = 1
    /\ rt.response = [status |-> 101, by |-> "upstream"]
    /\ rt.websocket
    /\ rt.tunnel = "upgrading"

\* C17: every connection task eventually terminates, and every WebSocket
\* tunnel that copies eventually terminates, whatever the peers do, also
\* when they stay connected and send nothing.
C17_TasksTerminate ==
    /\ <>(rt.pc = "closed")
    /\ [](rt.tunnel = "copying" => <>(rt.tunnel = "done"))

\* C18: a request with Transfer-Encoding: chunked is never handed to the
\* upstream client and is never answered with an upstream's response.
C18_ChunkedRejected ==
    (\E i \in 1..Len(rt.request.headers) :
        /\ rt.request.headers[i].name = "transfer-encoding"
        /\ \E j \in 1..Len(rt.request.headers[i].value) :
               rt.request.headers[i].value[j] = "chunked")
       => /\ ~rt.sent.some
          /\ rt.response.by # "upstream"

\* C19: every step that answers 404, 400 or 502 on the proxy's own account,
\* and every step that ends the connection task with a serving error,
\* leaves an error in snapshot.last_error; the proxy's own answers are 404,
\* 400 and 502 only.
C19_FailuresRecorded ==
    [][LET answered == rt'.response # rt.response /\ rt'.response.by = "proxy"
           failed   == rt'.ended # rt.ended /\ rt'.ended = "error"
       IN  /\ answered => rt'.response.status \in {404, 400, 502}
           /\ (answered \/ failed) => snapshot'.last_error.some]_vars
(***************************************************************************)
(* What a failed extraction tells its caller.                              *)
(***************************************************************************)
\* the frames create_archive wrote for this archive, before any damage
original_frames ==
    finish(write(new_writer(<<>>, from_aead(derive_key(ar.cpw.v, ar.header.salt),
                                            ar.header.nonce)),
                 ar.input))

\* the error extract_archive returns for the undamaged archive when it is
\* given the non-empty password pw, other than the archive's own
wrong_password_error(pw) ==
    read(new_reader(from_aead(derive_key(pw, ar.header.salt), ar.header.nonce)),
         PLAIN_CHUNK, original_frames).res

\* C23: when the extraction of an encrypted archive whose payload was
\* tampered with or truncated fails under the correct password, the error
\* returned is the error a wrong password gives for the same archive.
C23_FailuresIndistinguishable ==
    (/\ Extracted
     /\ EncryptedArchive
     /\ ar.tamper.kind \in {"truncate", "flip"}
     /\ ar.tamper.f > 0
     /\ ar.xpw = ar.cpw
     /\ ~ar.result.ok)
       => ar.result.err = wrong_password_error(<<"q">>)
(***************************************************************************)
(* pack_chunk_header and unpack_chunk_header on their own                  *)
(* (archive.rs:34-47): lengths around every power of two below 2^31.       *)
(***************************************************************************)
MaxDelta == 1

\* 0x7FFF_FFFF, the largest length of the claim's range
LEN_MASK == 2147483647

HeaderLens ==
    {n \in {2 ^ k + d : k \in 0..30, d \in (0 - MaxDelta)..MaxDelta}
             \cup {LEN_MASK - d : d \in 0..MaxDelta} : n >= 1}

InitChunkHeader ==
    /\ InitProxy
    /\ IdleRoutes
    /\ \E is_last \in BOOLEAN, len \in HeaderLens :
          ar = [pc |-> "header_input", is_last |-> is_last, len |-> len]

\* the header written by archive.rs:141 / 163 and read back by archive.rs:220
PackUnpack ==
    /\ ar.pc = "header_input"
    /\ LET hdr == pack_chunk_header(ar.is_last, ar.len)
       IN  ar' = [pc |-> "header_read", is_last |-> ar.is_last, len |-> ar.len,
                  hdr |-> hdr, back |-> unpack_chunk_header(hdr)]
    /\ UNCHANGED <<runtime, snapshot, total_requests, calls, tasks, conns, now, reply, rt>>

SpecChunkHeader == InitChunkHeader /\ [][PackUnpack]_vars

\* C26: unpack_chunk_header(pack_chunk_header(is_last, len)) = (is_last, len)
\* for both values of is_last and every len in [1, 2^31); the four bytes
\* are the big-endian u32 of len and the high bit of the first byte is set
\* exactly when is_last.
C26_HeaderRoundTrip ==
    ar.pc = "header_read"
       => /\ ar.back = [is_last |-> ar.is_last, len |-> ar.len]
          /\ \A i \in 1..4 : ar.hdr[i] \in 0..255
          /\ (ar.hdr[1] >= 128) <=> ar.is_last
          /\ (ar.hdr[1] % 128) * 16777216 + ar.hdr[2] * 65536 + ar.hdr[3] * 256 + ar.hdr[4]
                = ar.len

C26_Witness ==
    /\ ar.pc = "header_read"
    /\ ar.is_last
    /\ ar.len = LEN_MASK
    /\ ar.hdr = <<255, 255, 255, 255>>
(***************************************************************************)
(* normalize_path_prefix on its own (proxy.rs:894-911): every raw prefix   *)
(* of up to MaxPathLen characters over a small alphabet.                   *)
(***************************************************************************)
PrefixChars == {"/", "a", "b", " "}

InitNormalize ==
    /\ InitProxy
    /\ IdleArchive
    /\ \E raw \in SeqsUpTo(PrefixChars, MaxPathLen) :
          rt = [pc |-> "prefix_input", raw |-> raw]

\* build_routes, proxy.rs:813: the prefix of a route input is normalized;
\* again is the result of normalizing that result
NormalizePrefix ==
    /\ rt.pc = "prefix_input"
    /\ rt' = [pc |-> "prefix_normalized", raw |-> rt.raw,
              prefix |-> normalize_path_prefix(rt.raw),
              again |-> normalize_path_prefix(normalize_path_prefix(rt.raw))]
    /\ UNCHANGED <<runtime, snapshot, total_requests, calls, tasks, conns, now, reply, ar>>

SpecNormalize == InitNormalize /\ [][NormalizePrefix]_vars

\* C27: for every input, normalize_path_prefix returns a value that starts
\* with "/", does not end with "/" unless it is exactly "/", and is left
\* unchanged by a second application; empty or blank input gives "/".
C27_PrefixNormalForm ==
    rt.pc = "prefix_normalized"
       => /\ starts_with(rt.prefix, <<"/">>)
          /\ (rt.prefix # <<>> /\ rt.prefix[Len(rt.prefix)] = "/") => rt.prefix = <<"/">>
          /\ trim(rt.raw) = <<>> => rt.prefix = <<"/">>
          /\ rt.again = rt.prefix
(***************************************************************************)
(* parse_target on its own (proxy.rs:843-891) and build_routes on a list   *)
(* that holds the target (proxy.rs:809-838).  A raw target is a scheme     *)
(* text followed by up to MaxRestLen characters, or one of a few longer    *)
(* texts that reach the limits of the port.                                *)
(***************************************************************************)
MaxRestLen == 3

SchemeTexts ==
    { <<>>,
      <<"h", "t", "t", "p", ":", "/", "/">>,
      <<"H", "T", "T", "P", ":", "/", "/">>,
      <<"H", "t", "t", "p", "s", ":", "/", "/">>,
      <<"w", "s", ":", "/", "/">>,
      <<"W", "S", "S", ":", "/", "/">>,
      <<" ", "w", "s", "s", ":", "/", "/">>,
      <<"h", "t", "t", "p", ":", "/">>,
      <<"s", "s", "h", ":", "/", "/">> }

RestChars == {"h", ":", "/", "8", " "}

LongRests ==
    { <<"h", ":", "6", "5", "5", "3", "5">>, <<"h", ":", "6", "5", "5", "3", "6">>,
      <<"h", ":", "+", "8">>, <<"h", ":", "-", "8">>, <<"H", ".", "b", ":", "0", "8", "/", "/", " ">> }

RawTargets ==
    {s \o r : s \in SchemeTexts, r \in SeqsUpTo(RestChars, MaxRestLen) \cup LongRests}

InitTarget ==
    /\ InitProxy
    /\ IdleArchive
    /\ \E raw \in RawTargets : rt = [pc |-> "target_input", raw |-> raw]

\* build_routes as called by proxy_start (proxy.rs:282) on a config whose
\* second route has the target, enabled or disabled; its call of
\* parse_target (proxy.rs:815)
ParseTarget ==
    /\ rt.pc = "target_input"
    /\ rt' = [pc |-> "target_parsed", raw |-> rt.raw,
              parsed |-> parse_target(rt.raw),
              with_enabled  |-> build_routes(<<RouteA, [RouteA EXCEPT !.target = rt.raw]>>),
              with_disabled |-> build_routes(<<RouteA, [RouteOff EXCEPT !.target = rt.raw]>>)]
    /\ UNCHANGED <<runtime, snapshot, total_requests, calls, tasks, conns, now, reply, ar>>

SpecTarget == InitTarget /\ [][ParseTarget]_vars

\* the parts of a raw target, read off the text around its first colon:
\* the scheme name in lower case, whether "//" follows, and what is left
TargetParts(raw) ==
    LET n == trim_end_matches(trim(raw), "/")
        k == find_char(n, ":")
    IN  [scheme  |-> IF k = 0 THEN <<>> ELSE to_ascii_lowercase(SubSeq(n, 1, k - 1)),
         slashes |-> k # 0 /\ Len(n) >= k + 2 /\ n[k + 1] = "/" /\ n[k + 2] = "/",
         rest    |-> IF k = 0 THEN <<>> ELSE SubSeq(n, k + 3, Len(n))]

\* scheme://host[:port], outer blanks and closing slashes set aside
WellFormedTarget(raw) ==
    LET t == TargetParts(raw)
        c == find_char(t.rest, ":")
    IN  /\ t.scheme \in { <<"h", "t", "t", "p">>, <<"h", "t", "t", "p", "s">>,
                          <<"w", "s">>, <<"w", "s", "s">> }
        /\ t.slashes
        /\ t.rest # <<>>
        /\ \A i \in 1..Len(t.rest) : t.rest[i] # "/"
        /\ count_char(t.rest, ":") <= 1
        /\ c # 0 => /\ trim(SubSeq(t.rest, 1, c - 1)) # <<>>
                    /\ parse_u16(trim(SubSeq(t.rest, c + 1, Len(t.rest)))).some

RequestQueries == {None, Some(<<>>), Some(<<"p", "=", "1">>)}

InitRewrite ==
    /\ InitProxy
    /\ IdleArchive
    /\ \E raw \in PathTexts, strip \in BOOLEAN, tail \in PathTexts, query \in RequestQueries :
          rt = [pc |-> "rewrite_input",
                routes |-> build_routes(<<[RouteA EXCEPT !.path_prefix = raw,
                                                         !.strip_prefix = strip]>>).routes,
                path |-> <<"/">> \o tail, query |-> query]

\* handle_proxy_request, proxy.rs:459-475: the route is selected and the
\* path and query of the upstream URI are built (proxy.rs:765)
RewritePath ==
    /\ rt.pc = "rewrite_input"
    /\ LET route == select_route(rt.routes, None, rt.path)
       IN  rt' = [pc |-> "rewritten", routes |-> rt.routes, path |-> rt.path,
                  query |-> rt.query, route |-> route,
                  path_and_query |-> IF route.some
                                     THEN rewrite_path_and_query(rt.path, rt.query, route.v)
                                     ELSE <<>>]
    /\ UNCHANGED <<runtime, snapshot, total_requests, calls, tasks, conns, now, reply, ar>>

SpecRewrite == InitRewrite /\ [][RewritePath]_vars

\* C29: for a request matched to a route with strip_prefix and a prefix
\* other than "/", the upstream path is the request path without its first
\* Len(prefix) characters, "/" when nothing remains; otherwise it is the
\* request path; it always starts with "/", and a non-empty query follows
\* it unchanged after "?".
C29_StripPrefix ==
    (rt.pc = "rewritten" /\ rt.route.some)
       => LET prefix == rt.route.v.path_prefix
              n      == Len(prefix)
              path   == IF rt.route.v.strip_prefix /\ prefix # <<"/">>
                        THEN IF Len(rt.path) = n THEN <<"/">>
                             ELSE SubSeq(rt.path, n + 1, Len(rt.path))
                        ELSE rt.path
          IN  /\ path[1] = "/"
              /\ rt.path_and_query =
                    IF rt.query.some /\ rt.query.v # <<>>
                    THEN path \o <<"?">> \o rt.query.v
                    ELSE path

C29_Witness ==
    /\ rt.pc = "rewritten"
    /\ rt.route.some
    /\ rt.route.v.strip_prefix
    /\ rt.route.v.path_prefix = <<"/", "a">>
    /\ rt.path = <<"/", "a", "/", "x">>
    /\ rt.path_and_query = <<"/", "x", "?", "p", "=", "1">>
(***************************************************************************)
(* sanitize_hop_headers on its own (proxy.rs:662-699): every request of up *)
(* to MaxHeaders header lines drawn from HeaderLines.                      *)
(***************************************************************************)
MaxHeaders == 3

HeaderLines ==
    { Line("connection", <<"close">>),
      Line("connection", <<"X-Foo">>),
      Line("connection", <<"Upgrade", "x-foo">>),
      Line("connection", <<"", "x foo", "Keep-Alive">>),
      Line("upgrade", <<"websocket">>),
      Line("x-foo", <<"1">>),
      Line("accept", <<"*">>),
      Line("te", <<"trailers">>),
      Line("trailer", <<"x-foo">>),
      Line("transfer-encoding", <<"chunked">>),
      Line("keep-alive", <<"timeout=5">>),
      Line("proxy-connection", <<"keep-alive">>),
      Line("proxy-authenticate", <<"basic">>),
      Line("proxy-authorization", <<"basic">>) }

InitHeaders ==
    /\ InitProxy
    /\ IdleArchive
    /\ \E headers \in SeqsUpTo(HeaderLines, MaxHeaders), keep_upgrade \in BOOLEAN :
          rt = [pc |-> "headers_input", headers |-> headers, keep_upgrade |-> keep_upgrade]

\* apply_proxy_headers, proxy.rs:634
SanitizeHeaders ==
    /\ rt.pc = "headers_input"
    /\ rt' = [pc |-> "headers_sanitized", headers |-> rt.headers,
              keep_upgrade |-> rt.keep_upgrade,
              sanitized |-> sanitize_hop_headers(rt.headers, rt.keep_upgrade)]
    /\ UNCHANGED <<runtime, snapshot, total_requests, calls, tasks, conns, now, reply, ar>>

SpecHeaders == InitHeaders /\ [][SanitizeHeaders]_vars

\* the values a header has, in order
values_of(headers, name) ==
    LET lines == SelectSeq(headers, LAMBDA h : h.name = name)
    IN  [i \in 1..Len(lines) |-> lines[i].value]

\* C30: after sanitize_hop_headers the request has none of
\* Proxy-Authenticate, Proxy-Authorization, TE, Trailer, Transfer-Encoding,
\* Proxy-Connection, Keep-Alive, and no header named by an item of a
\* Connection header of the original request (Upgrade excepted when
\* keep_upgrade); it has one Connection header, "upgrade" with the Upgrade
\* header as received when keep_upgrade, else "close" with no Upgrade header.
C30_HopHeadersRemoved ==
    rt.pc = "headers_sanitized"
       => /\ \A name \in {"proxy-authenticate", "proxy-authorization", "te", "trailer",
                          "transfer-encoding", "proxy-connection", "keep-alive"} :
                ~contains_key(rt.sanitized, name)
          /\ \A i \in 1..Len(rt.headers) :
                rt.headers[i].name = "connection"
                   => \A j \in 1..Len(rt.headers[i].value) :
                         LET item == lower_item(rt.headers[i].value[j])
                         IN  (item # "connection" /\ ~(rt.keep_upgrade /\ item = "upgrade"))
                                => ~contains_key(rt.sanitized, item)
          /\ values_of(rt.sanitized, "connection") =
                IF rt.keep_upgrade THEN << <<"upgrade">> >> ELSE << <<"close">> >>
          /\ values_of(rt.sanitized, "upgrade") =
                IF rt.keep_upgrade THEN values_of(rt.headers, "upgrade") ELSE <<>>
(***************************************************************************)
(* create_archive_blocking and extract_archive_blocking as commands        *)
(* (archive.rs:304-485, 502-623): the bytes of the container header, the   *)
(* progress events emitted, the key material of the call frame and the     *)
(* result.  The file is its first bytes (magic) and the bytes that follow  *)
(* (tail); what tar and gzip make of the payload is an outcome the         *)
(* environment chooses.                                                    *)
(***************************************************************************)
MaxEntries == 2

\* the bytes OsRng may deliver: 16 for the salt, 7 for the stream nonce
RandomSalts == { [i \in 1..16 |-> 0], [i \in 1..16 |-> 16 * i - 1] }

RandomNonces == { [i \in 1..7 |-> 0], [i \in 1..7 |-> 36 * i] }

GzipLevels == {None, Some(0), Some(6), Some(9), Some(10), Some(300)}

\* ten bytes that are not the magic
OtherMagic == <<"K", "R", "A", "T", "E", "_", "P", "K", "G", "1">>

File(magic, tail) == [magic |-> magic, tail |-> tail]

NoFile == File(<<>>, <<>>)

\* files given to extract_archive that create_archive did not write
SampleFiles ==
    { File(SubSeq(MAGIC_HEADER, 1, 9), <<>>),
      File(OtherMagic, <<1, 2, 9, 0, 0, 31, 139>>),
      File(OtherMagic, <<31, 139, 8>>),
      File(MAGIC_HEADER, <<>>),
      File(MAGIC_HEADER, <<31>>),
      File(MAGIC_HEADER, <<31, 139, 8>>),
      File(MAGIC_HEADER, <<1>>),
      File(MAGIC_HEADER, <<1, 2, 9, 0, 0, 31, 139>>),
      File(MAGIC_HEADER, <<1, 3, 9, 0>>),
      File(MAGIC_HEADER, <<0, 2, 9, 0, 0, 31, 139>>),
      File(MAGIC_HEADER, <<2, 2, 9, 0, 0, 31, 139>>),
      File(MAGIC_HEADER, <<255>>) }

\* KrateProgress without its message
Event(phase, current, total) == [phase |-> phase, current |-> current, total |-> total]

\* the buffers of a call frame that hold key material: "none" before they
\* exist, "live" while they hold it, "zeroized" after zeroize()
NoSecrets ==
    [derived |-> "none", key_bytes_opt |-> "none", key_bytes |-> "none",
     salt |-> "none", nonce_bytes |-> "none"]

\* before is the file at the output path when create_archive is called,
\* steps the finishing steps of the pipeline done so far, failed the step
\* that reported an error
NoCommand ==
    [pc |-> "start", cmd |-> "none", cpw |-> None, gzip_level |-> None, total |-> 0,
     packed |-> 0,
     file |-> NoFile, events |-> <<>>, secrets |-> NoSecrets, xpw |-> None,
     mode |-> "none", fed |-> None, result |-> Pending,
     before |-> NoFile, steps |-> <<>>, failed |-> "none"]

\* a file that is at the output path already
OldFile == File(MAGIC_HEADER, <<31, 139, 8>>)

\* a scan that goes on with an empty entry list
scan_result_allows_empty(found) ==
    IF found = -1 THEN Err("INPUT_MISSING") ELSE Ok

\* the outcome of archive.rs:321-326
scan_result(found) ==
    IF found = -1 THEN Err("INPUT_MISSING")
    ELSE IF found = 0 THEN Err("NO_FILES")
    ELSE Ok

\* the event of the loop that counts from 2
entry_progress_from_two(i, total) == Event("pack", i + 2, total)

\* archive.rs:419-427 / 458-466: the event emitted after entry i (from 0)
entry_progress(i, total) == Event("pack", i + 1, total)

\* the finishing steps in the order of archive.rs:431-433 with
\* StreamEncryptWriter::finish (archive.rs:163-166), and of archive.rs:469-471
\* with the drop of the BufWriter at the end of the block
FinishSteps(encrypted) ==
    IF encrypted THEN <<"trailer", "footer", "terminal", "flush">>
    ELSE <<"trailer", "flush", "footer", "flush_on_drop">>

\* a step whose error is returned with ?: all but the flush that
\* BufWriter::drop does, which discards its error
error_returned(step) == step # "flush_on_drop"

\* the bytes written by archive.rs:339-383 after the magic
header_bytes(h) ==
    <<h.version, h.flags, h.lvl, h.salt_len>>
       \o (IF h.salt_len = 0 THEN <<>> ELSE h.salt)
       \o <<h.nonce_len>>
       \o (IF h.nonce_len = 0 THEN <<>> ELSE h.nonce)

\* the reads of archive.rs:512-572: the header as far as the file holds it,
\* and the number of header bytes that could be read
read_header(file) ==
    LET t   == file.tail
        at(i) == IF i <= Len(t) THEN t[i] ELSE 0
        sl  == at(4)
        nl  == at(5 + sl)
        h   == [magic |-> file.magic, version |-> at(1), flags |-> at(2), lvl |-> at(3),
                salt_len |-> sl, salt |-> SubSeq(t, 5, min(4 + sl, Len(t))),
                nonce_len |-> nl, nonce |-> SubSeq(t, 6 + sl, min(5 + sl + nl, Len(t)))]
    IN  [header |-> h,
         hlen   |-> IF Len(file.magic) < 10 THEN Len(file.magic)
                    ELSE 10 + min(Len(t), 5 + sl + nl)]

\* io::Read::chain that loses the byte already read
chain_without_first(first, rest) == rest

\* io::Read::chain, archive.rs:527
chain(first, rest) == first \o rest

InitCommand ==
    /\ InitProxy
    /\ IdleRoutes
    /\ \E before \in {NoFile, OldFile} :
          ar = [NoCommand EXCEPT !.file = before, !.before = before]

\* create_archive_blocking, archive.rs:311-326: the scan event, then
\* collect_entries fails (found = -1), finds nothing or finds total entries
CmdCreateScan ==
    /\ ar.pc = "start"
    /\ \E password \in CreatePasswords, found \in -1..MaxEntries :
          LET c == [ar EXCEPT !.cmd = "create", !.cpw = password,
                              !.events = <<Event("scan", 0, 0)>>]
          IN  ar' = IF scan_result(found).ok
                    THEN [c EXCEPT !.pc = "header", !.total = found]
                    ELSE [c EXCEPT !.pc = "returned", !.result = scan_result(found)]
    /\ UNCHANGED <<runtime, snapshot, total_requests, calls, tasks, conns, now, reply, rt>>

\* archive.rs:328-412 / 440-451: the header is written, the key derived,
\* the payload writer built and the first pack event emitted
CmdCreateHeader ==
    /\ ar.pc = "header"
    /\ \E gzip_level \in GzipLevels, salt \in RandomSalts, nonce \in RandomNonces :
          LET encrypted == is_encrypted(ar.cpw)
              lvl       == min(IF gzip_level.some THEN gzip_level.v ELSE 9, 9)
              h         == new_header(encrypted, lvl, salt, nonce)
          IN  ar' = [ar EXCEPT !.pc = "pack",
                               !.file = File(MAGIC_HEADER, header_bytes(h)),
                               !.gzip_level = gzip_level,
                               !.secrets = IF encrypted
                                           THEN [derived |-> "live", key_bytes_opt |-> "live",
                                                 key_bytes |-> "live", salt |-> "live",
                                                 nonce_bytes |-> "live"]
                                           ELSE @,
                               !.events = Append(@, Event("pack", 0, ar.total))]
    /\ UNCHANGED <<runtime, snapshot, total_requests, calls, tasks, conns, now, reply, rt>>

\* one turn of the loop of archive.rs:414-429 / 453-467
CmdPackEntry ==
    /\ ar.pc = "pack"
    /\ ar.packed < ar.total
    /\ \E appended \in BOOLEAN :
          ar' = IF appended
                THEN [ar EXCEPT !.packed = @ + 1,
                                !.events = Append(@, entry_progress(ar.packed, ar.total))]
                ELSE [ar EXCEPT !.pc = "returned", !.result = Err("APPEND_FAILED")]
    /\ UNCHANGED <<runtime, snapshot, total_requests, calls, tasks, conns, now, reply, rt>>

\* archive.rs:431-437 / 469-471 and 474-484: tar, gzip and the encrypt
\* writer are finished and the sink flushed, one step after the other up to
\* the first failure (stop = 0: none fails); then the buffers are zeroized
\* and the last event emitted.  The bytes of the footer reach the file with
\* the last flush.
CmdPackEnd ==
    /\ ar.pc = "pack"
    /\ ar.packed = ar.total
    /\ LET all == FinishSteps(is_encrypted(ar.cpw))
       IN  \E stop \in 0..Len(all) :
              LET failed == IF stop = 0 THEN "none" ELSE all[stop]
                  steps  == IF stop = 0 THEN all ELSE SubSeq(all, 1, stop - 1)
                  done   == [ar EXCEPT !.steps = steps, !.failed = failed]
              IN  ar' = IF failed # "none" /\ error_returned(failed)
                        THEN [done EXCEPT !.pc = "returned", !.result = Err("FINISH_FAILED")]
                        ELSE [done EXCEPT
                                 !.pc = "returned", !.result = Ok,
                                 !.file.tail = @ \o (IF failed = "none" THEN <<31, 139>>
                                                     ELSE <<31>>),
                                 !.secrets = IF is_encrypted(ar.cpw)
                                             THEN [@ EXCEPT !.key_bytes = "zeroized",
                                                            !.nonce_bytes = "zeroized",
                                                            !.salt = "zeroized"]
                                             ELSE @,
                                 !.events = Append(@, Event("pack", ar.total, ar.total))]
    /\ UNCHANGED <<runtime, snapshot, total_requests, calls, tasks, conns, now, reply, rt>>

\* extract_archive_blocking, archive.rs:508-608, called on a sample file or
\* on the archive just created: header checks, the unpack event, the
\* password check, the key and the reader handed to gzip
CmdExtractHead ==
    /\ \/ ar.pc = "start"
       \/ ar.pc = "returned" /\ ar.cmd = "create" /\ ar.result = Ok
    /\ \E file \in (IF ar.pc = "start" THEN SampleFiles ELSE {ar.file}),
          password \in ExtractPasswords :
          LET p == read_header(file)
              o == extract_open(p.header, p.hlen, password)
              x == [NoCommand EXCEPT !.cmd = "extract", !.file = file, !.xpw = password,
                                     !.cpw = ar.cpw]
              rest == SubSeq(file.tail, 2, Len(file.tail))
              payload == SubSeq(file.tail, p.hlen - 9, Len(file.tail))
              begun == <<Event("unpack", 0, 0)>>
          IN  ar' = CASE o.res = "legacy" ->
                           [x EXCEPT !.pc = "unpack", !.mode = "legacy",
                                     !.fed = Some(chain(<<p.header.version>>, rest))]
                      [] o.res = "plain" ->
                           [x EXCEPT !.pc = "unpack", !.mode = "plain", !.events = begun,
                                     !.fed = Some(payload)]
                      [] o.res = "decrypt" ->
                           [x EXCEPT !.pc = "unpack", !.mode = "decrypt", !.events = begun,
                                     !.fed = Some(payload),
                                     !.secrets = [NoSecrets EXCEPT !.key_bytes = "live",
                                                                   !.salt = "live",
                                                                   !.nonce_bytes = "live"]]
                      [] o.res = "PASSWORD_REQUIRED" ->
                           [x EXCEPT !.pc = "returned", !.events = begun,
                                     !.result = Err(o.res)]
                      [] OTHER ->
                           [x EXCEPT !.pc = "returned", !.result = Err(o.res)]
    /\ UNCHANGED <<runtime, snapshot, total_requests, calls, tasks, conns, now, reply, rt>>

\* archive.unpack returns: archive.rs:530-532 (legacy), 601-605, 609 and
\* 612-622
CmdUnpackEnd ==
    /\ ar.pc = "unpack"
    /\ \E unpacked \in BOOLEAN :
          ar' = IF ~unpacked
                THEN [ar EXCEPT !.pc = "returned", !.result = Err("UNPACK_FAILED")]
                ELSE IF ar.mode = "legacy"
                THEN [ar EXCEPT !.pc = "returned", !.result = Ok]
                ELSE [ar EXCEPT !.pc = "returned", !.result = Ok,
                                !.secrets = IF ar.mode = "decrypt"
                                            THEN [@ EXCEPT !.key_bytes = "zeroized",
                                                           !.nonce_bytes = "zeroized",
                                                           !.salt = "zeroized"]
                                            ELSE @,
                                !.events = Append(@, Event("unpack", 1, 1))]
    /\ UNCHANGED <<runtime, snapshot, total_requests, calls, tasks, conns, now, reply, rt>>

NextCommand ==
    \/ CmdCreateScan
    \/ CmdCreateHeader
    \/ CmdPackEntry
    \/ CmdPackEnd
    \/ CmdExtractHead
    \/ CmdUnpackEnd

SpecCommand == InitCommand /\ [][NextCommand]_vars
\* C21: extract_archive looks at the file in this order: ten magic bytes
\* other than the magic give BAD_MAGIC and nothing reaches the unpacker; a
\* byte 10 of 0x1F selects the legacy path, whose gzip decoder gets that
\* byte followed by the rest of the file; a byte 10 of 1 selects the v1
\* path; any other byte 10 gives UNSUPPORTED_VERSION and nothing reaches
\* the unpacker.
C21_ExtractDispatch ==
    (ar.cmd = "extract" /\ ar.pc \in {"unpack", "returned"})
       => LET f == ar.file
          IN  /\ (Len(f.magic) = 10 /\ f.magic # MAGIC_HEADER)
                    => (ar.result = Err("BAD_MAGIC") /\ ~ar.fed.some)
              /\ (f.magic = MAGIC_HEADER /\ f.tail # <<>>)
                    => /\ f.tail[1] = 31
                             => (ar.mode = "legacy" /\ ar.fed = Some(f.tail))
                       /\ f.tail[1] = VERSION_V1
                             => /\ ar.mode # "legacy"
                                /\ ar.result.err \notin {"BAD_MAGIC", "UNSUPPORTED_VERSION"}
                                /\ ar.fed.some
                                      => ar.fed.v = SubSeq(f.tail,
                                                           read_header(f).hlen - 9, Len(f.tail))
                       /\ f.tail[1] \notin {31, VERSION_V1}
                             => (ar.result = Err("UNSUPPORTED_VERSION") /\ ~ar.fed.some)

C21_Witness ==
    /\ ar.cmd = "extract"
    /\ ar.pc = "returned"
    /\ ar.file = File(MAGIC_HEADER, <<31, 139, 8>>)
    /\ ar.mode = "legacy"
    /\ ar.fed = Some(<<31, 139, 8>>)
    /\ ar.result = Ok

\* C22: the header create_archive writes has the encrypted flag exactly
\* when a non-empty password was given; then salt_len and nonce_len are
\* positive and followed by that many bytes, otherwise both are 0; the level
\* byte is the requested level, 9 when none was given or more than 9 asked.
C22_HeaderWellFormed ==
    (ar.cmd = "create" /\ ar.pc \in {"pack", "returned"} /\ ar.total > 0)
       => LET t   == ar.file.tail
              enc == ar.cpw.some /\ ar.cpw.v # <<>>
          IN  /\ ar.file.magic = MAGIC_HEADER
              /\ t[1] = VERSION_V1
              /\ (t[2] % 2 = 1) <=> enc
              /\ t[3] \in 0..9
              /\ t[3] = IF ~ar.gzip_level.some \/ ar.gzip_level.v > 9 THEN 9
                        ELSE ar.gzip_level.v
              /\ enc => /\ t[4] > 0
                        /\ Len(t) >= 5 + t[4]
                        /\ t[5 + t[4]] > 0
                        /\ Len(t) >= 5 + t[4] + t[5 + t[4]]
                        /\ ar.pc = "pack" => Len(t) = 5 + t[4] + t[5 + t[4]]
              /\ ~enc => /\ t[4] = 0
                         /\ t[5] = 0
                         /\ ar.pc = "pack" => Len(t) = 5

C22_Witness ==
    /\ ar.cmd = "create"
    /\ ar.pc = "returned"
    /\ ar.result = Ok
    /\ ar.cpw = Some(<<"p">>)
    /\ ar.gzip_level = Some(300)
    /\ SubSeq(ar.file.tail, 1, 4) = <<1, 3, 9, 16>>
    /\ ar.file.tail[21] = 7

\* C24: when an encrypted create_archive or extract_archive returns, with
\* success or with an error, no buffer of its call frame still holds the
\* key, the salt or the nonce: each was zeroized or never filled.
C24_KeyMaterialZeroized ==
    ar.pc = "returned"
       => \A b \in DOMAIN ar.secrets : ar.secrets[b] # "live"

\* C25: a call that returns success has emitted, as its last event, an
\* event with current = total that marks completion; a call that returns
\* an error has emitted no such event.
C25_CompletionEvent ==
    ar.pc = "returned"
       => LET completion(e) == e.current = e.total /\ e.total > 0
          IN  /\ ar.result.ok
                    => /\ ar.events # <<>>
                       /\ completion(ar.events[Len(ar.events)])
              /\ ~ar.result.ok
                    => \A i \in 1..Len(ar.events) : ~completion(ar.events[i])
(***************************************************************************)
(* WebSocket passthrough: which requests are handled as an upgrade and     *)
(* when the tunnel runs.                                                   *)
(***************************************************************************)
\* C31: a request is handled as a WebSocket upgrade exactly when its
\* Upgrade header is "websocket" (letter case aside) and its Connection
\* header contains "upgrade"; for such a request the tunnel is started
\* exactly when the upstream answers 101 and copies only after that 101
\* head was handed to the client; any other upstream status is relayed as an
\* ordinary response and no tunnel is started.
C31_WebSocketUpgrade ==
    LET upgrade     == values_of(rt.request.headers, "upgrade")
        connection  == values_of(rt.request.headers, "connection")
        qualifies   ==
            /\ upgrade # <<>>
            /\ \A i \in 1..Len(upgrade) :
                  Len(upgrade[i]) = 1 /\ lower_item(upgrade[i][1]) = "websocket"
            /\ \E i \in 1..Len(connection) : \E j \in 1..Len(connection[i]) :
                  lower_item(connection[i][j]) = "upgrade"
        answered    == rt.response.by = "upstream"
    IN  /\ rt.sent.some => (rt.websocket <=> qualifies)
        /\ (rt.websocket /\ answered)
              => (rt.tunnel # "none" <=> rt.response.status = 101)
        /\ rt.tunnel # "none"
              => (rt.websocket /\ answered /\ rt.response.status = 101)
        /\ (answered /\ rt.response.status # 101) => rt.tunnel = "none"
        /\ (~rt.websocket /\ answered) => rt.tunnel = "none"
(***************************************************************************)
(* Per-route TLS trust policy.                                             *)
(***************************************************************************)
\* the target of a route input names TLS: https:// or wss://, letter case
\* and surrounding blanks aside
TlsTarget(target) ==
    LET t == to_ascii_lowercase(trim(target))
    IN  starts_with(t, Txt("https://")) \/ starts_with(t, Txt("wss://"))

\* C32: a request is sent with the insecure client exactly when the route
\* selected for it was configured with allow_insecure_tls = true and a TLS
\* target; a request on any other route uses the secure client, whatever
\* the other routes of the table are.
C32_InsecureClientOnlyForItsRoute ==
    (rt.pc = "selected" /\ rt.selected.some)
       => /\ rt.client \in {"secure", "insecure"}
          /\ \A i \in 1..Len(rt.inputs) :
                (rt.inputs[i].enabled /\ make_route(rt.inputs[i]) = rt.selected.v)
                   => (rt.client = "insecure"
                          <=> (rt.inputs[i].allow_insecure_tls /\ TlsTarget(rt.inputs[i].target)))

\* C32 witness: the table holds a route with the insecure policy and the
\* request is served, with the secure client, by an http route that has
\* allow_insecure_tls set
C32_Witness ==
    /\ rt.pc = "selected"
    /\ rt.selected.some
    /\ rt.selected.v.allow_insecure_tls
    /\ rt.selected.v.target_scheme = "Http"
    /\ rt.client = "secure"
    /\ \E i \in 1..Len(rt.inputs) :
          /\ rt.inputs[i].enabled
          /\ select_upstream_client(make_route(rt.inputs[i])) = "insecure"
(***************************************************************************)
(* The payload writer and reader between their calls.                      *)
(***************************************************************************)
\* C33: after every write call of StreamEncryptWriter all of its input was
\* taken (the frames emitted and the buffer hold, in order, every byte
\* written so far), the buffer holds fewer than PLAIN_CHUNK bytes, and every
\* frame emitted before finish is non-terminal and carries exactly the next
\* PLAIN_CHUNK bytes of the input.
C33_WriterBuffersAndFrames ==
    (ar.pc = "packing" /\ ar.w.some)
       => LET w == ar.w.v
              k == Len(w.inner)
          IN  /\ bytes_len(w.buf) < PLAIN_CHUNK
              /\ bytes_len(ar.input) = k * PLAIN_CHUNK + bytes_len(w.buf)
              /\ w.buf = slice_from(ar.input, k * PLAIN_CHUNK)
              /\ \A i \in 1..k :
                    LET f == w.inner[i]
                    IN  /\ ~unpack_chunk_header(f.hdr).is_last
                        /\ bytes_len(f.ct.pt) = PLAIN_CHUNK
                        /\ f.ct.pt = slice_to(slice_from(ar.input, (i - 1) * PLAIN_CHUNK),
                                              PLAIN_CHUNK)

\* C33 witness: the second write call found PLAIN_CHUNK - 1 bytes buffered,
\* ran the loop of flush_chunks twice and left the buffer empty
C33_Witness ==
    /\ ar.pc = "packing"
    /\ ar.w.some
    /\ ar.nwrites = 2
    /\ ar.input[1].n = PLAIN_CHUNK - 1
    /\ Len(ar.w.v.inner) = 2
    /\ ar.w.v.buf = NoBytes

\* the reader has read and decrypted a frame with is_last set: decrypt_last
\* consumed the decryptor and refill set done (archive.rs:238-244)
TerminalFrameDecrypted(r) == r.done /\ ~r.dec.some

\* C34: StreamDecryptReader::read returns the end of the stream (Ok(0)) only
\* after a frame with is_last set was read and decrypted; when the source
\* ends before such a frame the read returns an error; once the terminal
\* frame is consumed every further read returns the end of the stream.
C34_EndOnlyAfterTerminalFrame ==
    (ar.mode = "decrypt" /\ ar.r.some)
       => LET r == ar.r.v
          IN  /\ ar.last_read = "end" => TerminalFrameDecrypted(r)
              /\ (ar.pc = "extracted" /\ r.pos > Len(ar.frames) /\ ~TerminalFrameDecrypted(r))
                    => ar.last_read = "error"
              /\ (TerminalFrameDecrypted(r) /\ r.out_pos >= bytes_len(r.out_buf))
                    => \A n \in ReadSizes :
                          LET rr == read(r, n, ar.frames)
                          IN  rr.res = "ok" /\ rr.out = NoBytes
(***************************************************************************)
(* create_archive: when the output file comes about, the pack events and   *)
(* the end of the pipeline.                                                *)
(***************************************************************************)
\* C35: create_archive emits the scan event, collects the entries and only
\* then creates the output file: when an input path does not exist or no
\* entry was collected it returns the error, the file at the output path is
\* as it was before the call and the scan event is the only event.
C35_NoOutputBeforeEntries ==
    /\ (ar.cmd = "create" /\ ar.total = 0)
          => /\ ar.pc = "returned"
             /\ ar.result \in {Err("INPUT_MISSING"), Err("NO_FILES")}
             /\ ar.file = ar.before
             /\ ar.events = <<Event("scan", 0, 0)>>
    /\ (ar.cmd = "create" /\ ar.file # ar.before)
          => /\ ar.total > 0
             /\ ar.events[1] = Event("scan", 0, 0)

\* C35 witness: nothing was collected while a file is at the output path
C35_Witness ==
    /\ ar.cmd = "create"
    /\ ar.pc = "returned"
    /\ ar.result = Err("NO_FILES")
    /\ ar.before = OldFile
    /\ ar.file = OldFile

\* C36: in a create_archive run over N entries every pack event has
\* total = N, the current values never decrease, an event with current = i+1
\* is emitted only when entry i (from 0) has been appended, and when the
\* append of entry k fails no event has a current above k.
C36_PackEventsFollowEntries ==
    (ar.cmd = "create" /\ ar.total > 0)
       => LET pack == SelectSeq(ar.events, LAMBDA e : e.phase = "pack")
          IN  /\ \A i \in 1..Len(pack) : pack[i].total = ar.total
              /\ \A i \in 1..Len(pack), j \in 1..Len(pack) :
                    i < j => pack[i].current <= pack[j].current
              /\ \A i \in 1..Len(pack) : pack[i].current <= ar.packed
              /\ \A k \in 1..ar.packed :
                    \E i \in 1..Len(pack) : pack[i].current = k
              /\ ar.result = Err("APPEND_FAILED")
                    => /\ ar.packed < ar.total
                       /\ pack[Len(pack)].current = ar.packed

\* C36 witness: the second of two entries could not be appended
C36_Witness ==
    /\ ar.cmd = "create"
    /\ ar.result = Err("APPEND_FAILED")
    /\ ar.total = 2
    /\ ar.packed = 1
    /\ ar.events = <<Event("scan", 0, 0), Event("pack", 0, 2), Event("pack", 1, 2)>>

RECURSIVE in_order(_, _)
\* the steps of want occur in steps, in this order; the flush done by the
\* drop of the BufWriter is a flush
in_order(want, steps) ==
    IF want = <<>> THEN TRUE
    ELSE IF steps = <<>> THEN FALSE
    ELSE IF Head(steps) = Head(want) \/ (Head(want) = "flush" /\ Head(steps) = "flush_on_drop")
         THEN in_order(Tail(want), Tail(steps))
         ELSE in_order(want, Tail(steps))

\* C37: create_archive returns success only after the tar trailer, the gzip
\* footer and (when encrypted) the terminal frame were written, in this
\* order, and the buffered sink was then flushed without error, in both
\* pipelines; when one of these steps fails, the last flush included, it
\* returns an error.
C37_SuccessOnlyAfterFlush ==
    (ar.cmd = "create" /\ ar.pc = "returned")
       => /\ ar.result.ok
                => /\ ar.failed = "none"
                   /\ in_order(IF is_encrypted(ar.cpw)
                               THEN <<"trailer", "footer", "terminal", "flush">>
                               ELSE <<"trailer", "footer", "flush">>, ar.steps)
          /\ ar.failed # "none" => ~ar.result.ok
(***************************************************************************)
(* The request counter across runs.                                        *)
(***************************************************************************)
\* C38: a proxy_start call that returns an error leaves the proxy state as
\* it was: it has not replaced a counter other than 0, it is not the
\* registered runtime, and the step that returns the error changes neither
\* the runtime handle nor the snapshot nor total_requests.
C38_FailedStartChangesNothing ==
    /\ [](\A c \in Calls :
            (calls[c].kind = "start" /\ calls[c].pc = "done" /\ ~calls[c].result.ok)
               => (calls[c].overwrote <= 0 /\ runtime # c))
    /\ [][\A c \in Calls :
            (calls[c].kind = "start" /\ calls[c].pc # "done"
               /\ calls'[c].pc = "done" /\ ~calls'[c].result.ok)
               => UNCHANGED <<runtime, snapshot, total_requests>>]_vars

\* C39: after a successful proxy_start total_requests counts the requests
\* of the current run only: the status the start returns shows 0, the
\* counter never decreases while the run is registered, and a connection
\* task of an earlier run neither increases it nor sets last_error while
\* the acceptor of the new run is running.
C39_CounterOfCurrentRun ==
    /\ [](\A c \in Calls :
            (calls[c].kind = "start" /\ calls[c].pc = "done" /\ calls[c].result.ok)
               => reply.v.total_requests = 0)
    /\ [][(runtime # 0 /\ runtime' = runtime) => total_requests' >= total_requests]_vars
    /\ [][\A t \in Calls :
            (tasks[t].state = "running" /\ tasks'[t].old < tasks[t].old)
               => /\ total_requests' = total_requests
                  /\ snapshot'.last_error = snapshot.last_error]_vars
(***************************************************************************)
(* The two mutexes of ProxyState.  Every command, the acceptor task and a  *)
(* connection task are walked lock by lock: a step acquires a std Mutex    *)
(* (enabled while it is free), leaves a critical section (the guard is     *)
(* dropped), or passes an await.  rt.slot is the content of the runtime    *)
(* mutex (0 = None, p = the runtime registered by command p), rt.owner the *)
(* holder of each mutex (0 = free).  A command frame spawns at most one    *)
(* acceptor at a time.                                                     *)
(***************************************************************************)
MaxLockCalls == 2

LockCalls == 1..MaxLockCalls

Mutexes == {"runtime", "snapshot"}

AcceptorId(p) == MaxLockCalls + p

ConnId == 2 * MaxLockCalls + 1

LockOwners == 1..ConnId

IdleCommand == [kind |-> "none", pc |-> "idle", taken |-> 0]

NoAcceptor == [pc |-> "none", stop |-> FALSE, abort |-> FALSE]

InitLocks ==
    /\ InitProxy
    /\ IdleArchive
    /\ rt = [pc |-> "locks",
             owner |-> [m \in Mutexes |-> 0],
             slot |-> 0,
             cmd |-> [p \in LockCalls |-> IdleCommand],
             acc |-> [p \in LockCalls |-> NoAcceptor],
             conn |-> "none"]

LkFrame == UNCHANGED <<runtime, snapshot, total_requests, calls, tasks, conns, now, reply, ar>>

\* the mutexes `who` holds
held(owner, who) == {m \in Mutexes : owner[m] = who}

\* Mutex::lock returns a guard once the mutex is free
acquire(owner, m, who) == [owner EXCEPT ![m] = who]

\* a guard goes out of scope
release(owner, m) == [owner EXCEPT ![m] = 0]

\* a return drops every guard still in scope
release_all(owner, who) == [m \in Mutexes |-> IF owner[m] = who THEN 0 ELSE owner[m]]

keep_runtime_guard(owner) == owner

\* proxy_start, drop(runtime_guard) before the snapshot is locked
drop_runtime_guard(owner) == release(owner, "runtime")

\* the command returns to its caller and its frame is gone
Returned(p) ==
    rt' = [rt EXCEPT !.owner = release_all(rt.owner, p), !.cmd[p] = IdleCommand]

\* command p is at `pc`, and at `next` once it holds mutex m
LockStep(p, pc, m, next) ==
    /\ rt.cmd[p].pc = pc
    /\ rt.owner[m] = 0
    /\ rt' = [rt EXCEPT !.owner = acquire(rt.owner, m, p), !.cmd[p].pc = next]

\* a command is invoked; a proxy_start whose listen address or routes are
\* rejected returns before it touches a mutex and leaves no trace here
LkInvoke(p) ==
    /\ rt.pc = "locks"
    /\ rt.cmd[p].pc = "idle"
    /\ \E kind \in {"start", "stop", "status"} :
          rt' = [rt EXCEPT !.cmd[p] =
                    [kind |-> kind, taken |-> 0,
                     pc |-> CASE kind = "start" -> "s_lock1"
                              [] kind = "stop" -> "t_lock1"
                              [] kind = "status" -> "status_lock"]]
    /\ LkFrame

\* proxy_start, one step at a time
LkStart(p) ==
    /\ rt.pc = "locks"
    /\ LkFrame
    /\ \/ LockStep(p, "s_lock1", "runtime", "s_check")
       \* the guard of the first block ends with the block, or with the return
       \/ /\ rt.cmd[p].pc = "s_check"
          /\ IF rt.slot # 0
                THEN Returned(p)
                ELSE rt' = [rt EXCEPT !.owner = release(rt.owner, "runtime"),
                                      !.cmd[p].pc = "s_bind"]
       \* TcpListener::bind(..).await and create_https_clients()? pass or
       \* return the error; then the acceptor task is spawned
       \/ /\ rt.cmd[p].pc = "s_bind"
          /\ \E bound \in BOOLEAN :
                IF bound /\ rt.acc[p].pc = "none"
                   THEN rt' = [rt EXCEPT !.acc[p] = [pc |-> "select", stop |-> FALSE,
                                                     abort |-> FALSE],
                                         !.cmd[p].pc = "s_lock2"]
                   ELSE Returned(p)
       \/ LockStep(p, "s_lock2", "runtime", "s_recheck")
       \* another start registered first: stop and abort the own acceptor and
       \* return; otherwise register the runtime and drop the guard
       \/ /\ rt.cmd[p].pc = "s_recheck"
          /\ IF rt.slot # 0
                THEN rt' = [rt EXCEPT !.acc[p].stop = TRUE, !.acc[p].abort = TRUE,
                                      !.owner = release_all(rt.owner, p),
                                      !.cmd[p] = IdleCommand]
                ELSE rt' = [rt EXCEPT !.slot = p,
                                      !.owner = drop_runtime_guard(rt.owner),
                                      !.cmd[p].pc = "s_lock3"]
       \/ LockStep(p, "s_lock3", "snapshot", "s_snap")
       \* the snapshot fields are written, the block ends
       \/ /\ rt.cmd[p].pc = "s_snap"
          /\ rt' = [rt EXCEPT !.owner = release(rt.owner, "snapshot"),
                              !.cmd[p].pc = "status_lock"]

\* proxy_stop, one step at a time
LkStop(p) ==
    /\ rt.pc = "locks"
    /\ LkFrame
    /\ \/ LockStep(p, "t_lock1", "runtime", "t_take")
       \* guard.take(), the guard ends with the block; the stop is sent to
       \* the runtime that was taken
       \/ /\ rt.cmd[p].pc = "t_take"
          /\ IF rt.slot # 0
                THEN rt' = [rt EXCEPT !.slot = 0,
                                      !.owner = release(rt.owner, "runtime"),
                                      !.acc[rt.slot].stop = TRUE,
                                      !.cmd[p].taken = rt.slot,
                                      !.cmd[p].pc = "t_join"]
                ELSE rt' = [rt EXCEPT !.owner = release(rt.owner, "runtime"),
                                      !.cmd[p].pc = "t_lock2"]
       \* runtime.handle.await resolves once the acceptor task has ended
       \/ /\ rt.cmd[p].pc = "t_join"
          /\ rt.acc[rt.cmd[p].taken].pc = "finished"
          /\ rt' = [rt EXCEPT !.acc[rt.cmd[p].taken] = NoAcceptor, !.cmd[p].pc = "t_lock2"]
       \/ LockStep(p, "t_lock2", "snapshot", "t_snap")
       \* the snapshot fields are cleared, the block ends
       \/ /\ rt.cmd[p].pc = "t_snap"
          /\ rt' = [rt EXCEPT !.owner = release(rt.owner, "snapshot"),
                              !.cmd[p].pc = "status_lock"]

\* ProxyState::status, called by all three commands for their reply
LkStatus(p) ==
    /\ rt.pc = "locks"
    /\ LkFrame
    /\ \/ LockStep(p, "status_lock", "snapshot", "status_in")
       \/ /\ rt.cmd[p].pc = "status_in"
          /\ Returned(p)

\* run_proxy_server: the stop branch of select!
LkAcceptorStop(p) ==
    /\ rt.pc = "locks"
    /\ rt.acc[p].pc = "select"
    /\ rt.acc[p].stop
    /\ rt' = [rt EXCEPT !.acc[p] = IF rt.acc[p].abort THEN NoAcceptor
                                    ELSE [@ EXCEPT !.pc = "finished"]]
    /\ LkFrame

\* handle.abort() ends the task at an await
LkAcceptorAborted(p) ==
    /\ rt.pc = "locks"
    /\ rt.acc[p].pc \in {"select", "sleep"}
    /\ rt.acc[p].abort
    /\ rt' = [rt EXCEPT !.acc[p] = NoAcceptor]
    /\ LkFrame

\* accept() returned a connection: its task is spawned
LkAcceptOk(p) ==
    /\ rt.pc = "locks"
    /\ rt.acc[p].pc = "select"
    /\ rt.conn = "none"
    /\ rt' = [rt EXCEPT !.conn = "idle"]
    /\ LkFrame

\* accept() failed
LkAcceptErr(p) ==
    /\ rt.pc = "locks"
    /\ rt.acc[p].pc = "select"
    /\ rt' = [rt EXCEPT !.acc[p].pc = "err_lock"]
    /\ LkFrame

\* the acceptor's way through a failed accept back to select!:
\* set_runtime_error, then sleep 80 ms
LkAcceptorInner(p) ==
    /\ rt.pc = "locks"
    /\ LkFrame
    /\ \/ /\ rt.acc[p].pc = "err_lock"
          /\ rt.owner["snapshot"] = 0
          /\ rt' = [rt EXCEPT !.owner = acquire(rt.owner, "snapshot", AcceptorId(p)),
                              !.acc[p].pc = "err_in"]
       \/ /\ rt.acc[p].pc = "err_in"
          /\ rt' = [rt EXCEPT !.owner = release(rt.owner, "snapshot"), !.acc[p].pc = "sleep"]
       \/ /\ rt.acc[p].pc = "sleep"
          /\ rt' = [rt EXCEPT !.acc[p].pc = "select"]

\* the connection task up to the lock of set_runtime_error
LkConn ==
    /\ rt.pc = "locks"
    /\ LkFrame
       \* a request arrived, the upstream request is awaited
    /\ \/ /\ rt.conn = "idle"
          /\ rt' = [rt EXCEPT !.conn = "upstream"]
       \* forwarded: total_requests.fetch_add, no mutex
       \/ /\ rt.conn = "upstream"
          /\ rt' = [rt EXCEPT !.conn = "idle"]
       \* the upstream request or serve_connection failed
       \/ /\ rt.conn \in {"idle", "upstream"}
          /\ rt' = [rt EXCEPT !.conn = "c_lock"]
       \/ /\ rt.conn = "c_lock"
          /\ rt.owner["snapshot"] = 0
          /\ rt' = [rt EXCEPT !.owner = acquire(rt.owner, "snapshot", ConnId),
                              !.conn = "c_in"]

\* set_runtime_error has written last_error, its guard is dropped
LkConnUnlock ==
    /\ rt.pc = "locks"
    /\ rt.conn = "c_in"
    /\ rt' = [rt EXCEPT !.owner = release(rt.owner, "snapshot"), !.conn = "idle"]
    /\ LkFrame

\* every step of command p after its invocation
LkCommandStep(p) == LkStart(p) \/ LkStop(p) \/ LkStatus(p)

NextLocks ==
    \/ \E p \in LockCalls : LkInvoke(p)
    \/ \E p \in LockCalls : LkCommandStep(p)
    \/ \E p \in LockCalls : LkAcceptorStop(p)
    \/ \E p \in LockCalls : LkAcceptorAborted(p)
    \/ \E p \in LockCalls : LkAcceptOk(p)
    \/ \E p \in LockCalls : LkAcceptErr(p)
    \/ \E p \in LockCalls : LkAcceptorInner(p)
    \/ LkConn
    \/ LkConnUnlock

SpecLocks == InitLocks /\ [][NextLocks]_vars

\* A command or task that can run is scheduled.  A command, and the acceptor
\* after a failed accept, that waits for a mutex gets it when the mutex is
\* free again and again: every critical section is a few assignments
\* without an await.  select! polls its branches in random order, so a stop
\* that was sent is received although connections keep arriving.  The
\* connection task leaves its critical section.
SpecLocksFair ==
    /\ SpecLocks
    /\ \A p \in LockCalls : SF_vars(LkCommandStep(p))
    /\ \A p \in LockCalls : SF_vars(LkAcceptorStop(p))
    /\ \A p \in LockCalls : SF_vars(LkAcceptorInner(p))
    /\ WF_vars(LkConnUnlock)

\* the awaits: bind, join of the acceptor, accept and sleep, upstream request
AtSuspension(who) ==
    \/ who \in LockCalls /\ rt.cmd[who].pc \in {"idle", "s_bind", "t_join"}
    \/ \E p \in LockCalls :
          who = AcceptorId(p) /\ rt.acc[p].pc \in {"none", "finished", "select", "sleep"}
    \/ who = ConnId /\ rt.conn \in {"none", "idle", "upstream"}

\* C40: no command or task holds the runtime mutex and the snapshot mutex
\* together, none holds a mutex at an await (bind, accept, sleep, join of
\* the acceptor, upstream request) or after it returned, and every command
\* that was invoked returns: proxy_start, proxy_get_status and in particular
\* every proxy_stop.
C40_LocksNeverNestedStopReturns ==
    /\ [](\A who \in LockOwners : Cardinality(held(rt.owner, who)) <= 1)
    /\ [](\A who \in LockOwners : AtSuspension(who) => held(rt.owner, who) = {})
    /\ \A p \in LockCalls : (rt.cmd[p].pc # "idle") ~> (rt.cmd[p].pc = "idle")

\* a proxy_stop that took a runtime and joined its acceptor holds the
\* snapshot mutex for its reply, the runtime mutex is held by another
\* command, and the connection task waits for the snapshot mutex
C40_Witness ==
    \E p \in LockCalls :
       /\ rt.pc = "locks"
       /\ rt.cmd[p].kind = "stop" /\ rt.cmd[p].pc = "status_in" /\ rt.cmd[p].taken # 0
       /\ rt.owner["snapshot"] = p
       /\ \E q \in LockCalls \ {p} : rt.owner["runtime"] = q
       /\ rt.conn = "c_lock"
====
